---- MODULE Spec2Model ----
(***************************************************************************)
(* A model of the Cypher clause compiler of Apache AGE                     *)
(* (src/backend/parser/cypher_clause.c).  A clause chain is compiled by    *)
(* transform_cypher_clause: every clause first compiles its predecessor in *)
(* a child parse state (analyze_cypher_clause), wraps the result as the    *)
(* sub-relation "_" and then compiles its own elements.  The model keeps   *)
(* the parse state of the clause being compiled, the query under           *)
(* construction, the entity registry and the finished queries.             *)
(***************************************************************************)
EXTENDS Integers, Sequences, FiniteSets, TLC

VARIABLES
    chain,          \* the clause list handed to the compiler (never changes)
    labels,         \* the label catalog: label name -> label kind
    cur,            \* index in chain of the clause being compiled
    pc,             \* "enter" | "body" | "leave" | "done" | "error"
    pathi,          \* index of the path of the pattern being compiled
    elemi,          \* index of the next element of that path
    cpstate,        \* the cypher_parsestate of the clause being compiled
    query,          \* the Query under construction for that clause
    entities,       \* the local `entities' list of the MATCH path being compiled
    transformed_path, \* the target nodes of the CREATE path being compiled
    transformed,    \* the finished part of the clause's plan
    queries,        \* the finished Query of every compiled clause, by index
    trace,          \* the clause indexes whose own part has started, in order
    error           \* the error that reached the caller, or NoError

vars == <<chain, labels, cur, pc, pathi, elemi, cpstate, query, entities,
          transformed_path, transformed, queries, trace, error>>

-----------------------------------------------------------------------------
(* Bounds of the model *)

\* the longest path of a pattern, in edges
MaxEdges == 2
\* the most paths a chain of MATCH clauses holds between its clauses
MaxRefs == 2
\* the most items a SET, REMOVE or DELETE clause lists
MaxItems == 2

-----------------------------------------------------------------------------
(* Names and constants of the source *)

NULL == "NULL"

ENT_VERTEX == "ENT_VERTEX"
ENT_EDGE == "ENT_EDGE"

CYPHER_REL_DIR_NONE == "CYPHER_REL_DIR_NONE"
CYPHER_REL_DIR_LEFT == "CYPHER_REL_DIR_LEFT"
CYPHER_REL_DIR_RIGHT == "CYPHER_REL_DIR_RIGHT"
Directions == {CYPHER_REL_DIR_NONE, CYPHER_REL_DIR_LEFT, CYPHER_REL_DIR_RIGHT}

JOIN_SIDE_LEFT == "JOIN_SIDE_LEFT"
JOIN_SIDE_RIGHT == "JOIN_SIDE_RIGHT"

LABEL_KIND_VERTEX == "v"
LABEL_KIND_EDGE == "e"

AG_DEFAULT_LABEL_VERTEX == "_ag_label_vertex"
AG_DEFAULT_LABEL_EDGE == "_ag_label_edge"

IS_DEFAULT_LABEL_VERTEX(l) == l = AG_DEFAULT_LABEL_VERTEX
IS_DEFAULT_LABEL_EDGE(l) == l = AG_DEFAULT_LABEL_EDGE

AG_EDGE_COLNAME_ID == "id"
AG_EDGE_COLNAME_START_ID == "start_id"
AG_EDGE_COLNAME_END_ID == "end_id"
AG_VERTEX_COLNAME_PROPERTIES == "properties"

PREV_CYPHER_CLAUSE_ALIAS == "_"

AGE_VARNAME_CREATE_CLAUSE == "_age_default_create_clause"
AGE_VARNAME_CREATE_NULL_VALUE == "_age_default_create_null_value"
AGE_VARNAME_DELETE_CLAUSE == "_age_default_delete_clause"
AGE_VARNAME_SET_CLAUSE == "_age_default_set_clause"

UPDATE_CLAUSE_SET == "SET"
UPDATE_CLAUSE_REMOVE == "REMOVE"

CYPHER_CLAUSE_FLAG_TERMINAL == "TERMINAL"
CYPHER_CLAUSE_FLAG_PREVIOUS_CLAUSE == "PREVIOUS_CLAUSE"

CYPHER_TARGET_NODE_FLAG_INSERT == "INSERT"
CYPHER_TARGET_NODE_IS_VAR == "IS_VAR"
CYPHER_TARGET_NODE_IN_PATH_VAR == "IN_PATH_VAR"
EXISTING_VARAIBLE_DECLARED_SAME_CLAUSE == "DECLARED_SAME_CLAUSE"

ERRCODE_FEATURE_NOT_SUPPORTED == "feature_not_supported"
ERRCODE_INVALID_COLUMN_REFERENCE == "invalid_column_reference"
ERRCODE_AMBIGUOUS_COLUMN == "ambiguous_column"
ERRCODE_UNDEFINED_COLUMN == "undefined_column"

\* ereport(ERROR, (errcode(code), errmsg(msg with its argument)))
ereport(code, msg, arg) == [code |-> code, msg |-> msg, arg |-> arg]
NoError == ereport("", "", "")

-----------------------------------------------------------------------------
(* Parse nodes: the input of the compiler *)

cypher_node(name, label, props) ==
    [kind |-> ENT_VERTEX, name |-> name, label |-> label, props |-> props,
     dir |-> CYPHER_REL_DIR_NONE, varlen |-> FALSE]

cypher_relationship(name, label, props, dir) ==
    [kind |-> ENT_EDGE, name |-> name, label |-> label, props |-> props,
     dir |-> dir, varlen |-> FALSE]

cypher_path(var_name, path) == [var_name |-> var_name, path |-> path]

\* items: what a SET/REMOVE/DELETE/RETURN clause lists; pattern: what a
\* MATCH/CREATE clause lists
cypher_match(pattern) ==
    [type |-> "cypher_match", pattern |-> pattern, items |-> <<>>]
cypher_create(pattern) ==
    [type |-> "cypher_create", pattern |-> pattern, items |-> <<>>]
cypher_set(items) ==
    [type |-> "cypher_set", pattern |-> <<>>, items |-> items]
cypher_remove(items) ==
    [type |-> "cypher_remove", pattern |-> <<>>, items |-> items]
cypher_delete(exprs) ==
    [type |-> "cypher_delete", pattern |-> <<>>, items |-> exprs]
\* an item of a clause: var.prop = literal of SET (is_add for +=), var.prop of
\* REMOVE, var of DELETE, var AS alias of RETURN
\* The left side of a SET or REMOVE item is any expression: prop_tag is the
\* node tag of set_item->prop, arg_tag the tag of the base of the indirection,
\* indirection the tags of its steps; var.prop is an A_Indirection of one
\* String step over a ColumnRef
cypher_item(var, prop, alias, is_add) ==
    [var |-> var, prop |-> prop, alias |-> alias, is_add |-> is_add,
     prop_tag |-> "A_Indirection", arg_tag |-> "ColumnRef",
     indirection |-> <<"String">>]
cypher_set_item(var, prop, is_add) == cypher_item(var, prop, NULL, is_add)
\* an item whose left side is the bare variable var
bare_variable_item(var) ==
    [cypher_set_item(var, NULL, FALSE) EXCEPT !.prop_tag = "ColumnRef",
                                              !.indirection = <<>>]
\* an item whose left side is a property of something that is not a variable
function_property_item(prop) ==
    [cypher_set_item(NULL, prop, FALSE) EXCEPT !.arg_tag = "FuncCall"]
\* an item whose left side is var followed by the given steps
indirection_item(var, prop, steps) ==
    [cypher_set_item(var, prop, FALSE) EXCEPT !.indirection = steps]
ColumnRefItem(var) == cypher_item(var, NULL, NULL, FALSE)

-----------------------------------------------------------------------------
(* Expressions the compiler builds *)

\* a NULL Expr pointer
NoExpr == [tag |-> "NULL", varno |-> 0, varattno |-> 0, name |-> NULL,
           args |-> <<>>]
\* makeVar: column varattno of range-table entry varno
Var(varno, varattno) ==
    [tag |-> "Var", varno |-> varno, varattno |-> varattno, name |-> NULL,
     args |-> <<>>]
\* a FuncExpr built by make_vertex_expr / make_edge_expr over a label relation
FuncExpr(fn, rtindex, alias) ==
    [tag |-> fn, varno |-> rtindex, varattno |-> 0, name |-> alias,
     args |-> <<>>]
\* a FuncExpr over already transformed expressions
FuncExprOver(fn, args) ==
    [tag |-> fn, varno |-> 0, varattno |-> 0, name |-> NULL, args |-> args]
\* a Const
Const(what) ==
    [tag |-> "Const", varno |-> 0, varattno |-> 0, name |-> what, args |-> <<>>]

IsA(expr, tag) == expr.tag = tag

\* makeTargetEntry; volatile records add_volatile_wrapper around the expression
TargetEntry(expr, resno, resname, resjunk) ==
    [expr |-> expr, resno |-> resno, resname |-> resname, resjunk |-> resjunk,
     ressortgroupref |-> 0, volatile |-> FALSE]

RangeTblEntry(kind, alias, colnames, cols_visible, in_joinlist) ==
    [rtekind |-> kind, alias |-> alias, colnames |-> colnames,
     cols_visible |-> cols_visible, in_joinlist |-> in_joinlist]

-----------------------------------------------------------------------------
(* Sequence helpers *)

Range(s) == {s[i] : i \in DOMAIN s}


\* the least index of s whose element satisfies P, or 0
FirstIndex(P(_), s) ==
    IF \E i \in DOMAIN s : P(s[i])
    THEN CHOOSE i \in DOMAIN s : P(s[i]) /\ \A j \in 1..(i - 1) : ~P(s[j])
    ELSE 0

-----------------------------------------------------------------------------
(* Raw expressions of the join quals.  Every node has the same fields:  op  *)
(* is the operator or function name, args its operands; a leaf holds a      *)
(* column reference rel.col, a label constant, or a transformed Expr.       *)

Q(op, args, rel, col, label, expr) ==
    [op |-> op, args |-> args, rel |-> rel, col |-> col, label |-> label,
     expr |-> expr]

FuncCall(fn, args) == Q(fn, args, NULL, NULL, NULL, NoExpr)
ColumnRef(rel, col) == Q("ColumnRef", <<>>, rel, col, NULL, NoExpr)
A_Const(label) == Q("A_Const", <<>>, NULL, NULL, label, NoExpr)
ExprArg(expr) == Q("Expr", <<>>, NULL, NULL, NULL, expr)
makeSimpleA_Expr(op, lexpr, rexpr) == FuncCall(op, <<lexpr, rexpr>>)
makeBoolExpr(op, args) == FuncCall(op, args)
AND_EXPR == "AND"
OR_EXPR == "OR"
AEXPR_OP == "="
AEXPR_IN == "IN"

\* a NULL Node pointer
NoNode == Q("NULL", <<>>, NULL, NULL, NULL, NoExpr)
\* a variable of the query text: a ColumnRef of one field
VariableRef(name) == ColumnRef(NULL, name)
\* an item of RETURN or WITH: val AS name (name NULL when there is no alias)
ResTarget(val, name) == [val |-> val, name |-> name]
\* a sort item of ORDER BY
SORTBY_DEFAULT == "SORTBY_DEFAULT"
SORTBY_ASC == "SORTBY_ASC"
SORTBY_DESC == "SORTBY_DESC"
SORTBY_NULLS_DEFAULT == "SORTBY_NULLS_DEFAULT"
SORTBY_NULLS_FIRST == "SORTBY_NULLS_FIRST"
SORTBY_NULLS_LAST == "SORTBY_NULLS_LAST"
SortBy(node, sortby_dir, sortby_nulls) ==
    [node |-> node, sortby_dir |-> sortby_dir, sortby_nulls |-> sortby_nulls]

\* RETURN items ORDER BY order_by SKIP skip LIMIT limit; skip and limit are
\* NoNode when absent
cypher_return(distinct, items, order_by, skip, limit) ==
    [type |-> "cypher_return", pattern |-> <<>>, items |-> items,
     distinct |-> distinct, order_by |-> order_by, skip |-> skip,
     limit |-> limit, where |-> NoNode]
\* WITH ... WHERE: where tells whether the clause has a WHERE
cypher_with(distinct, items, order_by, skip, limit, where) ==
    [type |-> "cypher_with", pattern |-> <<>>, items |-> items,
     distinct |-> distinct, order_by |-> order_by, skip |-> skip,
     limit |-> limit, where |-> where]

-----------------------------------------------------------------------------
(* The parse state and the entity registry *)

\* the parse state a clause starts with: nothing of the parent's range table,
\* join list, column counter or registry is copied into it
make_cypher_parsestate ==
    [p_rtable |-> <<>>, p_next_resno |-> 1, entities |-> <<>>,
     property_constraint_quals |-> <<>>, default_alias_num |-> 0]

\* the plan a CREATE, SET, REMOVE or DELETE clause serializes into its
\* function column: cypher_create_target_nodes, cypher_update_information
\* or cypher_delete_information
NoPlan == [kind |-> NULL, flags |-> {}, paths |-> <<>>, items |-> <<>>,
           clause_name |-> NULL]

NoQual == [op |-> "NULL", args |-> <<>>, rel |-> NULL, col |-> NULL,
           label |-> NULL, expr |-> NoExpr]

\* makeNode(Query)
makeQuery == [targetList |-> <<>>, quals |-> <<>>, jointree |-> NoQual,
              rtable |-> <<>>, plan |-> NoPlan, sortClause |-> <<>>,
              groupClause |-> <<>>, distinctClause |-> <<>>,
              limitOffset |-> NoExpr, limitCount |-> NoExpr, hasAggs |-> FALSE]

DefaultAliases ==
    <<"_age_default_alias_0", "_age_default_alias_1", "_age_default_alias_2",
      "_age_default_alias_3", "_age_default_alias_4", "_age_default_alias_5",
      "_age_default_alias_6", "_age_default_alias_7", "_age_default_alias_8",
      "_age_default_alias_9", "_age_default_alias_10", "_age_default_alias_11",
      "_age_default_alias_12", "_age_default_alias_13", "_age_default_alias_14",
      "_age_default_alias_15", "_age_default_alias_16", "_age_default_alias_17">>

get_next_default_alias(num) == DefaultAliases[num + 1]

NoEntity ==
    [type |-> "NULL", name |-> NULL, label |-> NULL, props |-> FALSE,
     dir |-> CYPHER_REL_DIR_NONE, expr |-> NoExpr, in_join_tree |-> FALSE,
     declared_in_current_clause |-> FALSE]

make_transform_entity(type, node, expr) ==
    [type |-> type, name |-> node.name, label |-> node.label,
     props |-> node.props, dir |-> node.dir, expr |-> expr,
     in_join_tree |-> (expr # NoExpr), declared_in_current_clause |-> TRUE]

\* the first registered entity called name, as an index of the registry, or 0
find_variable(ents, name) ==
    FirstIndex(LAMBDA e : e.name # NULL /\ e.name = name, ents)

\* the first target entry called resname, as an index, or 0
findTarget(targetList, resname) ==
    IF resname = NULL THEN 0
    ELSE FirstIndex(LAMBDA te : ~te.resjunk /\ te.resname = resname, targetList)

\* INCLUDE_NODE_IN_JOIN_TREE without its third rule
INCLUDE_NODE_IN_JOIN_TREE_named(path, node) ==
    path.var_name # NULL \/ node.name # NULL

INCLUDE_NODE_IN_JOIN_TREE(path, node) ==
    path.var_name # NULL \/ node.name # NULL \/ node.props

\* the columns called name that the namespace shows: <<range-table index,
\* column number>>
VisibleColumns(rtable, name) ==
    {p \in UNION {{<<i, j>> : j \in DOMAIN rtable[i].colnames} : i \in DOMAIN rtable} :
        /\ rtable[p[1]].cols_visible
        /\ rtable[p[1]].colnames[p[2]] = name}

\* colNameToVar of the relational parser: the one visible column called name
colNameToVar(rtable, name) ==
    LET found == VisibleColumns(rtable, name)
    IN  IF found = {} THEN [err |-> NoError, expr |-> NoExpr]
        ELSE IF Cardinality(found) > 1
        THEN [err |-> ereport(ERRCODE_AMBIGUOUS_COLUMN,
                              "column reference is ambiguous", name),
              expr |-> NoExpr]
        ELSE LET p == CHOOSE q \in found : TRUE
             IN  [err |-> NoError, expr |-> Var(p[1], p[2])]

\* the range-table index of the entry aliased name, or 0
find_rte(rtable, name) == FirstIndex(LAMBDA rte : rte.alias = name, rtable)

-----------------------------------------------------------------------------
(* MATCH: one pattern element *)

\* what transform_cypher_node / transform_cypher_edge hand back: the error
\* raised (or NoError), the element's expression, the parse state and target
\* list as changed, and the parse node as changed (label and name filled in)
Transformed(err, expr, cp, tl, node) ==
    [err |-> err, expr |-> expr, cp |-> cp, tl |-> tl, node |-> node]

\* the tail shared by transform_cypher_node and transform_cypher_edge: a new
\* range-table entry over the label's relation and a new target entry
NewRelation(cp, tl, node, fn, colnames, cols_visible) ==
    LET name == IF node.name = NULL
                THEN get_next_default_alias(cp.default_alias_num)
                ELSE node.name
        rte == RangeTblEntry("relation", name, colnames, cols_visible, TRUE)
        rtindex == Len(cp.p_rtable) + 1
        expr == FuncExpr(fn, rtindex, name)
        te == TargetEntry(expr, cp.p_next_resno, name, FALSE)
    IN  Transformed(NoError, expr,
                    [cp EXCEPT !.p_rtable = Append(@, rte),
                               !.p_next_resno = @ + 1,
                               !.default_alias_num =
                                   IF node.name = NULL THEN @ + 1 ELSE @],
                    Append(tl, te),
                    [node EXCEPT !.name = name])

transform_cypher_node(cp, tl, lc, node, output_node) ==
    LET node1 == IF node.label = NULL
                 THEN [node EXCEPT !.label = AG_DEFAULT_LABEL_VERTEX]
                 ELSE node
        Fail(e) == Transformed(e, NoExpr, cp, tl, node1)
        te == findTarget(tl, node1.name)
        cv == colNameToVar(cp.p_rtable, node1.name)
        ent == find_variable(cp.entities, node1.name)
    IN  IF node.label # NULL /\ node.label \notin DOMAIN lc
        THEN Fail(ereport(ERRCODE_FEATURE_NOT_SUPPORTED,
                          "label does not exists", node.label))
        ELSE IF node.label # NULL /\ lc[node.label] # LABEL_KIND_VERTEX
        THEN Fail(ereport(ERRCODE_FEATURE_NOT_SUPPORTED,
                          "label is for edges, not vertices", node.label))
        ELSE IF ~output_node
        THEN Transformed(NoError, NoExpr, cp, tl, node1)
        ELSE IF node1.name # NULL /\ cv.err # NoError
        THEN Fail(cv.err)
        ELSE IF node1.name # NULL /\ cv.expr # NoExpr
        THEN Transformed(NoError, cv.expr, cp, tl, node1)
        ELSE IF node1.name # NULL /\ te # 0
        THEN IF /\ ent # 0
                /\ \/ cp.entities[ent].type # ENT_VERTEX
                   \/ ~IS_DEFAULT_LABEL_VERTEX(node1.label)
                   \/ node1.props
             THEN Fail(ereport(ERRCODE_FEATURE_NOT_SUPPORTED,
                               "variable already exists", node1.name))
             ELSE Transformed(NoError, tl[te].expr, cp, tl, node1)
        ELSE NewRelation(cp, tl, node1, "_agtype_build_vertex",
                         <<"id", "properties">>, TRUE)

transform_cypher_edge(cp, tl, lc, rel) ==
    LET rel1 == IF rel.label = NULL
                THEN [rel EXCEPT !.label = AG_DEFAULT_LABEL_EDGE]
                ELSE rel
        Fail(e) == Transformed(e, NoExpr, cp, tl, rel1)
        te == findTarget(tl, rel1.name)
        cv == colNameToVar(cp.p_rtable, rel1.name)
        ent == find_variable(cp.entities, rel1.name)
    IN  IF rel.varlen
        THEN Fail(ereport(ERRCODE_FEATURE_NOT_SUPPORTED,
                          "variable length relationships are not supported", NULL))
        ELSE IF rel.label # NULL /\ rel.label \notin DOMAIN lc
        THEN Fail(ereport(ERRCODE_FEATURE_NOT_SUPPORTED,
                          "label does not exists", rel.label))
        ELSE IF rel.label # NULL /\ lc[rel.label] # LABEL_KIND_EDGE
        THEN Fail(ereport(ERRCODE_FEATURE_NOT_SUPPORTED,
                          "label is for vertices, not edges", rel.label))
        ELSE IF rel1.name # NULL /\ cv.err # NoError
        THEN Fail(cv.err)
        ELSE IF rel1.name # NULL /\ cv.expr # NoExpr
        THEN Transformed(NoError, cv.expr, cp, tl, rel1)
        ELSE IF rel1.name # NULL /\ te # 0
        THEN IF /\ ent # 0
                /\ \/ cp.entities[ent].type # ENT_EDGE
                   \/ ~IS_DEFAULT_LABEL_EDGE(rel1.label)
                   \/ rel1.props
             THEN Fail(ereport(ERRCODE_FEATURE_NOT_SUPPORTED,
                               "variable already exists", rel1.name))
             ELSE Transformed(NoError, tl[te].expr, cp, tl, rel1)
        ELSE NewRelation(cp, tl, rel1, "_agtype_build_edge",
                         <<"id", "start_id", "end_id", "properties">>, FALSE)

\* the predicate  _property_constraint_check(entity.properties, constraints):
\* the properties column of the entity's own relation when the range table
\* has one, else whatever the expression compiler makes of name.properties
create_property_constraint_function(rtable, entity) ==
    FuncCall("_property_constraint_check",
             <<IF find_rte(rtable, entity.name) # 0
               THEN ColumnRef(entity.name, AG_VERTEX_COLNAME_PROPERTIES)
               ELSE FuncCall("transformExpr",
                        <<ColumnRef(entity.name, AG_VERTEX_COLNAME_PROPERTIES)>>)>>)

-----------------------------------------------------------------------------
(* MATCH: the join quals of one path *)

AG_VERTEX_ACCESS_FUNCTION_ID == "AG_VERTEX_ACCESS_FUNCTION_ID"
AG_EDGE_ACCESS_FUNCTION_ID == "AG_EDGE_ACCESS_FUNCTION_ID"
AG_EDGE_ACCESS_FUNCTION_START_ID == "AG_EDGE_ACCESS_FUNCTION_START_ID"
AG_EDGE_ACCESS_FUNCTION_END_ID == "AG_EDGE_ACCESS_FUNCTION_END_ID"

get_accessor_function_name(type, name) ==
    IF type = ENT_VERTEX /\ name = AG_EDGE_COLNAME_ID
    THEN AG_VERTEX_ACCESS_FUNCTION_ID
    ELSE IF type = ENT_EDGE /\ name = AG_EDGE_COLNAME_ID
    THEN AG_EDGE_ACCESS_FUNCTION_ID
    ELSE IF type = ENT_EDGE /\ name = AG_EDGE_COLNAME_START_ID
    THEN AG_EDGE_ACCESS_FUNCTION_START_ID
    ELSE IF type = ENT_EDGE /\ name = AG_EDGE_COLNAME_END_ID
    THEN AG_EDGE_ACCESS_FUNCTION_END_ID
    ELSE "no accessor function"

\* entity->expr is read without a NULL test: for an entity with no
\* expression the read is of a NULL pointer
NULL_DEREFERENCE == "NULL dereference"

make_qual(entity, col_name) ==
    IF entity.expr = NoExpr
    THEN FuncCall(NULL_DEREFERENCE, <<>>)
    ELSE IF IsA(entity.expr, "Var")
    THEN FuncCall(get_accessor_function_name(entity.type, col_name),
                  <<ExprArg(entity.expr)>>)
    ELSE FuncCall("graphid_to_agtype", <<ColumnRef(entity.name, col_name)>>)

make_edge_quals(edge, side) ==
    LET left_dir == IF side = JOIN_SIDE_LEFT
                    THEN AG_EDGE_COLNAME_START_ID ELSE AG_EDGE_COLNAME_END_ID
        right_dir == IF side = JOIN_SIDE_LEFT
                     THEN AG_EDGE_COLNAME_END_ID ELSE AG_EDGE_COLNAME_START_ID
    IN  IF edge.dir = CYPHER_REL_DIR_LEFT
        THEN <<make_qual(edge, left_dir)>>
        ELSE IF edge.dir = CYPHER_REL_DIR_RIGHT
        THEN <<make_qual(edge, right_dir)>>
        ELSE <<make_qual(edge, left_dir), make_qual(edge, right_dir)>>

join_to_entity(entity, qual, side) ==
    IF entity.type = ENT_VERTEX
    THEN <<makeSimpleA_Expr(AEXPR_OP, qual, make_qual(entity, AG_EDGE_COLNAME_ID))>>
    ELSE LET edge_quals == make_edge_quals(entity, side)
         IN  IF Len(edge_quals) > 1
             THEN <<makeSimpleA_Expr(AEXPR_IN, qual, FuncCall("List", edge_quals))>>
             ELSE <<makeSimpleA_Expr(AEXPR_OP, qual, edge_quals[1])>>

filter_vertices_on_label_id(id_field, label) ==
    makeSimpleA_Expr(AEXPR_OP,
        FuncCall("_extract_label_id", <<FuncCall("agtype_to_graphid", <<id_field>>)>>),
        A_Const(label))

\* make_directed_edge_join_conditions without the join to the next entity
make_directed_edge_join_conditions_prev_only(prev_entity, next_entity, prev_qual, next_qual, prev_node_filter, next_node_filter) ==
    (IF prev_entity.in_join_tree
     THEN join_to_entity(prev_entity, prev_qual, JOIN_SIDE_LEFT) ELSE <<>>)
    \o
    (IF prev_node_filter # NULL /\ ~IS_DEFAULT_LABEL_VERTEX(prev_node_filter)
     THEN <<filter_vertices_on_label_id(prev_qual, prev_node_filter)>> ELSE <<>>)
    \o
    (IF next_node_filter # NULL /\ ~IS_DEFAULT_LABEL_VERTEX(next_node_filter)
     THEN <<filter_vertices_on_label_id(next_qual, next_node_filter)>> ELSE <<>>)

\* make_directed_edge_join_conditions joining the two entities whether or
\* not they are in the join tree
make_directed_edge_join_conditions_unguarded(prev_entity, next_entity, prev_qual, next_qual, prev_node_filter, next_node_filter) ==
    join_to_entity(prev_entity, prev_qual, JOIN_SIDE_LEFT)
    \o
    join_to_entity(next_entity, next_qual, JOIN_SIDE_RIGHT)
    \o
    (IF prev_node_filter # NULL /\ ~IS_DEFAULT_LABEL_VERTEX(prev_node_filter)
     THEN <<filter_vertices_on_label_id(prev_qual, prev_node_filter)>> ELSE <<>>)
    \o
    (IF next_node_filter # NULL /\ ~IS_DEFAULT_LABEL_VERTEX(next_node_filter)
     THEN <<filter_vertices_on_label_id(next_qual, next_node_filter)>> ELSE <<>>)

make_directed_edge_join_conditions(prev_entity, next_entity, prev_qual, next_qual, prev_node_filter, next_node_filter) ==
    (IF prev_entity.in_join_tree
     THEN join_to_entity(prev_entity, prev_qual, JOIN_SIDE_LEFT) ELSE <<>>)
    \o
    (IF next_entity.in_join_tree
     THEN join_to_entity(next_entity, next_qual, JOIN_SIDE_RIGHT) ELSE <<>>)
    \o
    (IF prev_node_filter # NULL /\ ~IS_DEFAULT_LABEL_VERTEX(prev_node_filter)
     THEN <<filter_vertices_on_label_id(prev_qual, prev_node_filter)>> ELSE <<>>)
    \o
    (IF next_node_filter # NULL /\ ~IS_DEFAULT_LABEL_VERTEX(next_node_filter)
     THEN <<filter_vertices_on_label_id(next_qual, next_node_filter)>> ELSE <<>>)

\* make_join_condition_for_edge with an undirected edge read as start -> end
\* alone
make_join_condition_for_edge_one_orientation(prev_edge, prev_node, entity, next_node, next_edge) ==
    LET prev_label_name_to_filter ==
            IF ~prev_node.in_join_tree THEN prev_node.label ELSE NULL
        next_label_name_to_filter ==
            IF ~next_node.in_join_tree /\ next_edge = NoEntity
            THEN next_node.label ELSE NULL
        prev_entity ==
            IF ~prev_node.in_join_tree /\ prev_edge # NoEntity
            THEN prev_edge ELSE prev_node
        start_id_expr == make_qual(entity, AG_EDGE_COLNAME_START_ID)
        end_id_expr == make_qual(entity, AG_EDGE_COLNAME_END_ID)
    IN  IF entity.dir = CYPHER_REL_DIR_LEFT
        THEN make_directed_edge_join_conditions(
                 prev_entity, next_node, end_id_expr, start_id_expr,
                 prev_label_name_to_filter, next_label_name_to_filter)
        ELSE make_directed_edge_join_conditions(
                 prev_entity, next_node, start_id_expr, end_id_expr,
                 prev_label_name_to_filter, next_label_name_to_filter)

make_join_condition_for_edge(prev_edge, prev_node, entity, next_node, next_edge) ==
    LET prev_label_name_to_filter ==
            IF ~prev_node.in_join_tree THEN prev_node.label ELSE NULL
        next_label_name_to_filter ==
            IF ~next_node.in_join_tree /\ next_edge = NoEntity
            THEN next_node.label ELSE NULL
        prev_entity ==
            IF ~prev_node.in_join_tree /\ prev_edge # NoEntity
            THEN prev_edge ELSE prev_node
        next_entity ==
            IF ~next_node.in_join_tree /\ next_edge # NoEntity
            THEN next_edge ELSE next_node
        start_id_expr == make_qual(entity, AG_EDGE_COLNAME_START_ID)
        end_id_expr == make_qual(entity, AG_EDGE_COLNAME_END_ID)
    IN  IF entity.dir = CYPHER_REL_DIR_RIGHT
        THEN make_directed_edge_join_conditions(
                 prev_entity, next_node, start_id_expr, end_id_expr,
                 prev_label_name_to_filter, next_label_name_to_filter)
        ELSE IF entity.dir = CYPHER_REL_DIR_LEFT
        THEN make_directed_edge_join_conditions(
                 prev_entity, next_node, end_id_expr, start_id_expr,
                 prev_label_name_to_filter, next_label_name_to_filter)
        ELSE <<makeBoolExpr(OR_EXPR,
                 <<makeBoolExpr(AND_EXPR,
                       make_directed_edge_join_conditions(
                           prev_entity, next_entity, start_id_expr, end_id_expr,
                           prev_label_name_to_filter, next_label_name_to_filter)),
                   makeBoolExpr(AND_EXPR,
                       make_directed_edge_join_conditions(
                           prev_entity, next_entity, end_id_expr, start_id_expr,
                           prev_label_name_to_filter, next_label_name_to_filter))>>)>>

\* the entity at place i of the path, or the NULL pointer
EntityAt(ents, i) == IF i \in DOMAIN ents THEN ents[i] ELSE NoEntity

\* the loop of make_path_join_quals from the edge at place i on
RECURSIVE PathJoinQualsFrom(_, _)
PathJoinQualsFrom(ents, i) ==
    IF i > Len(ents) THEN <<>>
    ELSE make_join_condition_for_edge(EntityAt(ents, i - 2), ents[i - 1],
                                      ents[i], EntityAt(ents, i + 1),
                                      EntityAt(ents, i + 2))
         \o PathJoinQualsFrom(ents, i + 2)

make_path_join_quals(ents) ==
    IF Len(ents) < 3 THEN <<>> ELSE PathJoinQualsFrom(ents, 2)

\* the edges of the path, in pattern order
RECURSIVE EdgesOf(_)
EdgesOf(ents) ==
    IF ents = <<>> THEN <<>>
    ELSE (IF Head(ents).type = ENT_EDGE THEN <<Head(ents)>> ELSE <<>>)
         \o EdgesOf(Tail(ents))

prevent_duplicate_edges(ents) ==
    LET edges == EdgesOf(ents)
    IN  FuncCall("_ag_enforce_edge_uniqueness",
                 [i \in DOMAIN edges |-> make_qual(edges[i], AG_EDGE_COLNAME_ID)])

\* the path variable built over the expressions of the vertices alone
transform_match_create_path_variable_vertices(ents) ==
    FuncExprOver("_agtype_build_path",
                 [i \in 1..((Len(ents) + 1) \div 2) |-> ents[2 * i - 1].expr])

\* the path variable's target entry: _agtype_build_path over every entity's
\* expression
transform_match_create_path_variable(ents) ==
    FuncExprOver("_agtype_build_path", [i \in DOMAIN ents |-> ents[i].expr])

-----------------------------------------------------------------------------
(* The clause chain driver *)

Clause == chain[cur]
HasPrev(i) == i > 1
HasNext(i) == i < Len(chain)

\* an error that is recorded while the compiler goes on
Raise_and_go_on(e) ==
    /\ pc' = pc
    /\ error' = e

\* ereport(ERROR): the error leaves the compiler; nothing runs after it
Raise(e) ==
    /\ pc' = "error"
    /\ error' = e

\* ereport(ERROR) out of a step: the error, and nothing else changes
RaiseOnly(e) ==
    /\ Raise(e)
    /\ UNCHANGED <<chain, labels, cur, pathi, elemi, cpstate, query, entities,
                   transformed_path, transformed, queries, trace>>

\* no clause needs a predecessor
RequiresPrev_never(c) == FALSE

\* Does the clause need a predecessor?
RequiresPrev(c) == c.type \in {"cypher_delete", "cypher_set", "cypher_remove"}

\* the clause kind as the errors of the clause name it
clause_name(c) ==
    CASE c.type = "cypher_delete" -> "DELETE"
      [] c.type = "cypher_remove" -> UPDATE_CLAUSE_REMOVE
      [] OTHER -> UPDATE_CLAUSE_SET

\* advance_transform_entities_to_next_clause leaving the flags as they are
advance_transform_entities_to_next_clause_keeping(ents) == ents

\* advance_transform_entities_to_next_clause
advance_transform_entities_to_next_clause(ents) ==
    [i \in DOMAIN ents |-> [ents[i] EXCEPT !.declared_in_current_clause = FALSE]]

\* the names of the columns a sub-query shows: its target entries that are
\* not junk
ColumnNames(targetList) ==
    LET keep == {i \in DOMAIN targetList : ~targetList[i].resjunk}
        RECURSIVE Names(_)
        Names(i) == IF i > Len(targetList) THEN <<>>
                    ELSE (IF i \in keep THEN <<targetList[i].resname>> ELSE <<>>)
                         \o Names(i + 1)
    IN  Names(1)

\* expandRelAttrs over the sub-relation "_" at range-table position 1
expandRelAttrs(colnames) ==
    [j \in DOMAIN colnames |-> TargetEntry(Var(1, j), j, colnames[j], FALSE)]

\* transform_cypher_clause_as_subquery taking over the child's parse state
\* as it is
transform_cypher_clause_as_subquery_leaking(child_cp, child_query) ==
    [child_cp EXCEPT
        !.p_rtable = <<RangeTblEntry("subquery", PREV_CYPHER_CLAUSE_ALIAS,
                                     ColumnNames(child_query.targetList),
                                     TRUE, TRUE)>> \o @,
        !.entities = advance_transform_entities_to_next_clause(@)]

\* transform_cypher_clause_as_subquery, after the child has returned: the
\* child's query becomes the one range-table entry "_" of a parse state that
\* holds nothing else of the child but its registry
transform_cypher_clause_as_subquery(child_cp, child_query) ==
    [make_cypher_parsestate EXCEPT
        !.p_rtable = <<RangeTblEntry("subquery", PREV_CYPHER_CLAUSE_ALIAS,
                                     ColumnNames(child_query.targetList),
                                     TRUE, TRUE)>>,
        !.entities = advance_transform_entities_to_next_clause(child_cp.entities)]

\* Does the clause copy the columns of "_" into its own target list?
ExpandsPrev(c) == c.type \notin {"cypher_return", "cypher_with"}

\* the state of clause i when its own part starts: cp is its parse state
\* after the predecessor (if any) has been compiled
StartBody(i, cp) ==
    LET c == chain[i]
        cols == IF HasPrev(i) /\ ExpandsPrev(c)
                THEN expandRelAttrs(cp.p_rtable[1].colnames) ELSE <<>>
        cp1 == [cp EXCEPT !.p_next_resno = Len(cols) + 1]
        null_te == TargetEntry(Const("NULL"), cp1.p_next_resno,
                               AGE_VARNAME_CREATE_NULL_VALUE, FALSE)
    IN  /\ pc' = "body"
        /\ cur' = i
        /\ pathi' = 1
        /\ elemi' = 1
        /\ entities' = <<>>
        /\ transformed_path' = <<>>
        /\ transformed' = <<>>
        /\ trace' = Append(trace, i)
        /\ IF c.type = "cypher_create"
           THEN /\ cpstate' = [cp1 EXCEPT !.p_next_resno = @ + 1]
                /\ query' = [makeQuery EXCEPT
                                !.targetList = Append(cols, null_te),
                                !.plan = [NoPlan EXCEPT
                                    !.kind = "create",
                                    !.flags = IF HasPrev(i)
                                              THEN {CYPHER_CLAUSE_FLAG_PREVIOUS_CLAUSE}
                                              ELSE {}]]
           ELSE /\ cpstate' = cp1
                /\ query' = [makeQuery EXCEPT !.targetList = cols]

\* transform_cypher_clause: the clause kind decides; DELETE, SET and REMOVE
\* need a predecessor; every clause with a predecessor compiles it first, in
\* a child parse state
TransformClause ==
    /\ pc = "enter"
    /\ IF RequiresPrev(Clause) /\ ~HasPrev(cur)
       THEN RaiseOnly(ereport(ERRCODE_FEATURE_NOT_SUPPORTED,
                              "cannot be the first clause in a Cypher query",
                              clause_name(Clause)))
       ELSE IF HasPrev(cur)
       THEN /\ cur' = cur - 1
            /\ UNCHANGED <<chain, labels, pc, pathi, elemi, cpstate, query,
                           entities, transformed_path, transformed, queries,
                           trace, error>>
       ELSE /\ StartBody(cur, make_cypher_parsestate)
            /\ UNCHANGED <<chain, labels, queries, error>>

\* analyze_cypher_clause after transform() has returned: the clause's query
\* is finished; the last clause's query is the result, any other becomes "_"
\* of its successor, which now compiles its own part
AnalyzeClause ==
    /\ pc = "leave"
    /\ queries' = Append(queries, query)
    /\ IF HasNext(cur)
       THEN /\ StartBody(cur + 1,
                         transform_cypher_clause_as_subquery(cpstate, query))
            /\ UNCHANGED <<chain, labels, error>>
       ELSE /\ pc' = "done"
            /\ UNCHANGED <<chain, labels, transformed_path, cur, pathi, elemi, cpstate, query,
                           entities, transformed, trace, error>>

-----------------------------------------------------------------------------
(* MATCH *)

Pattern == Clause.pattern
Path == Pattern[pathi]
InPattern == pc = "body" /\ pathi <= Len(Pattern)
InPath == InPattern /\ elemi <= Len(Path.path)

\* Does compiling the property constraint of this entity go through the
\* expression compiler (no relation of the range table is called like it)?
NeedsExpr(cp, node, entity) ==
    node.props /\ find_rte(cp.p_rtable, entity.name) = 0

\* the body of the loop of transform_match_entities
MatchEntity(type, r, ext_ok) ==
    LET entity == make_transform_entity(type, r.node, r.expr)
        node == Path.path[elemi]
    IN  /\ r.err # NoError \/ NeedsExpr(r.cp, node, entity) \/ ext_ok
        /\ IF r.err # NoError
           THEN /\ Raise(r.err)
                /\ UNCHANGED <<chain, labels, transformed_path, cur, pathi, elemi, cpstate, query,
                               entities, transformed, queries, trace>>
           ELSE IF ~ext_ok
           THEN /\ Raise(ereport(ERRCODE_UNDEFINED_COLUMN,
                                 "expression compiler", entity.name))
                /\ UNCHANGED <<chain, labels, transformed_path, cur, pathi, elemi, cpstate, query,
                               entities, transformed, queries, trace>>
           ELSE /\ cpstate' =
                     [r.cp EXCEPT
                        !.entities = Append(@, entity),
                        !.property_constraint_quals =
                            IF node.props
                            THEN Append(@, create_property_constraint_function(
                                               r.cp.p_rtable, entity))
                            ELSE @]
                /\ query' = [query EXCEPT !.targetList = r.tl]
                /\ entities' = Append(entities, entity)
                /\ elemi' = elemi + 1
                /\ UNCHANGED <<chain, labels, transformed_path, cur, pc, pathi, transformed,
                               queries, trace, error>>

TransformMatchNode ==
    /\ InPath
    /\ Clause.type = "cypher_match"
    /\ elemi % 2 = 1
    /\ \E ext_ok \in BOOLEAN :
          MatchEntity(ENT_VERTEX,
                      transform_cypher_node(cpstate, query.targetList, labels,
                          Path.path[elemi],
                          INCLUDE_NODE_IN_JOIN_TREE(Path, Path.path[elemi])),
                      ext_ok)

TransformMatchEdge ==
    /\ InPath
    /\ Clause.type = "cypher_match"
    /\ elemi % 2 = 0
    /\ \E ext_ok \in BOOLEAN :
          MatchEntity(ENT_EDGE,
                      transform_cypher_edge(cpstate, query.targetList, labels,
                                            Path.path[elemi]),
                      ext_ok)

\* the quals of a path with the anti-duplicate-edge qual from three edges on
PathQual_from_three_edges(ents) ==
    make_path_join_quals(ents)
    \o (IF Len(ents) > 5 THEN <<prevent_duplicate_edges(ents)>> ELSE <<>>)

\* the list of quals transform_match_path returns for a path
PathQual(ents) ==
    make_path_join_quals(ents)
    \o (IF Len(ents) > 3 THEN <<prevent_duplicate_edges(ents)>> ELSE <<>>)

\* transform_match_path once the entities of the path are transformed: the
\* path variable, the join quals, the anti-duplicate-edge qual
TransformMatchPath ==
    /\ InPattern
    /\ Clause.type = "cypher_match"
    /\ elemi > Len(Path.path)
    /\ IF Path.var_name # NULL /\ Len(entities) < 3
       THEN /\ Raise(ereport(ERRCODE_FEATURE_NOT_SUPPORTED,
                             "paths consist of alternating vertices and edges.",
                             Path.var_name))
            /\ UNCHANGED <<chain, labels, transformed_path, cur, pathi, elemi, cpstate, query,
                           entities, transformed, queries, trace>>
       ELSE /\ cpstate' = [cpstate EXCEPT !.p_next_resno =
                              IF Path.var_name # NULL THEN @ + 1 ELSE @]
            /\ query' = [query EXCEPT
                  !.targetList =
                      IF Path.var_name # NULL
                      THEN Append(@, TargetEntry(
                               transform_match_create_path_variable(entities),
                               cpstate.p_next_resno, Path.var_name, FALSE))
                      ELSE @,
                  !.quals = @ \o PathQual(entities)]
            /\ transformed' = Append(transformed,
                                     [entities |-> entities,
                                      join_quals |-> make_path_join_quals(entities),
                                      qual |-> PathQual(entities)])
            /\ pathi' = pathi + 1
            /\ elemi' = 1
            /\ entities' = <<>>
            /\ UNCHANGED <<chain, labels, transformed_path, cur, pc, queries, trace, error>>

\* transform_match_pattern once every path is transformed: the WHERE
\* predicate of the clause
MatchJoinTree(quals, prop_quals) ==
    IF prop_quals = <<>>
    THEN IF quals = <<>> THEN NoQual ELSE makeBoolExpr(AND_EXPR, quals)
    ELSE IF quals = <<>> THEN makeBoolExpr(AND_EXPR, prop_quals)
    ELSE makeBoolExpr(AND_EXPR, <<makeBoolExpr(AND_EXPR, quals),
                                   makeBoolExpr(AND_EXPR, prop_quals)>>)

TransformMatchPattern ==
    /\ pc = "body"
    /\ Clause.type = "cypher_match"
    /\ pathi > Len(Pattern)
    /\ query' = [query EXCEPT
          !.rtable = cpstate.p_rtable,
          !.jointree = MatchJoinTree(query.quals,
                                     cpstate.property_constraint_quals)]
    /\ pc' = "leave"
    /\ UNCHANGED <<chain, labels, transformed_path, cur, pathi, elemi, cpstate, entities,
                   transformed, queries, trace, error>>

-----------------------------------------------------------------------------
(* CREATE *)

InvalidAttrNumber == 0

\* make_ag_node(cypher_target_node): every field zero
make_cypher_target_node ==
    [type |-> NULL, flags |-> {}, label_name |-> NULL, variable_name |-> NULL,
     tuple_position |-> InvalidAttrNumber, prop_attr_num |-> InvalidAttrNumber,
     dir |-> CYPHER_REL_DIR_NONE, relid |-> NULL]

\* what the transform of one CREATE element hands back: the error raised (or
\* NoError), the plan node, the parse state, target list and catalog as
\* changed, and the parse node as changed
CreateResult(err, rel, cp, tl, lc, node) ==
    [err |-> err, rel |-> rel, cp |-> cp, tl |-> tl, lc |-> lc, node |-> node]

\* a NULL constant under a volatile wrapper, at the next column number
placeholder_target_entry(cp, name) ==
    [TargetEntry(Const("NULL"), cp.p_next_resno, name, FALSE)
        EXCEPT !.volatile = TRUE]

\* Is name a column of the previous clause?
variable_exists(cp, name) ==
    /\ name # NULL
    /\ find_rte(cp.p_rtable, PREV_CYPHER_CLAUSE_ALIAS) # 0
    /\ name \in Range(cp.p_rtable[find_rte(cp.p_rtable,
                                           PREV_CYPHER_CLAUSE_ALIAS)].colnames)

\* the first target entry called name
TargetEntryNamed(target_list, name) ==
    FirstIndex(LAMBDA te : te.resname = name, target_list)

\* get_target_entry_resno answering with the first column for every name
\* it finds
get_target_entry_resno_first_column(target_list, name) ==
    IF TargetEntryNamed(target_list, name) = 0 THEN -1 ELSE 1

\* get_target_entry_resno answering 0, the number of no column, instead of -1
\* for a name it does not find
get_target_entry_resno_zero_when_missing(target_list, name) ==
    IF TargetEntryNamed(target_list, name) = 0 THEN 0
    ELSE target_list[TargetEntryNamed(target_list, name)].resno

\* the column number of the first target entry called name, or -1
get_target_entry_resno(target_list, name) ==
    IF TargetEntryNamed(target_list, name) = 0 THEN -1
    ELSE target_list[TargetEntryNamed(target_list, name)].resno

\* what get_target_entry_resno does to the target list: the entry it finds
\* gets a volatile wrapper
add_volatile_wrapper(target_list, name) ==
    IF TargetEntryNamed(target_list, name) = 0 THEN target_list
    ELSE [target_list EXCEPT
             ![TargetEntryNamed(target_list, name)].volatile = TRUE]

\* create_label when the label does not exist
create_label(lc, label, kind) ==
    IF label \in DOMAIN lc THEN lc
    ELSE [l \in DOMAIN lc \cup {label} |-> IF l = label THEN kind ELSE lc[l]]

\* cypher_create_properties: the map the clause gives, or the default of the
\* properties column of the label's relation
cypher_create_properties(props, label) ==
    IF props THEN FuncExprOver("transform_cypher_expr", <<>>)
    ELSE FuncExpr("build_column_default", 0, label)

\* the part shared by a new vertex and an edge: the label exists from here
\* on, its relation is in the range table, and a column holds the properties
OpenLabelRelation(cp, tl, lc, node, label, kind) ==
    [cp |-> [cp EXCEPT
                !.p_rtable = Append(@, RangeTblEntry("relation", label, <<>>,
                                                     FALSE, FALSE)),
                !.default_alias_num = @ + 1,
                !.p_next_resno = @ + 1],
     tl |-> Append(tl, [TargetEntry(cypher_create_properties(node.props, label),
                                    cp.p_next_resno,
                                    get_next_default_alias(cp.default_alias_num),
                                    FALSE) EXCEPT !.volatile = TRUE]),
     lc |-> create_label(lc, label, kind),
     prop_attr_num |-> cp.p_next_resno - 1]

\* transform_create_cypher_existing_node without the tests of the property
\* map and of the label
transform_create_cypher_existing_node_unchecked(cp, tl, lc, declared_in_current_clause, node) ==
    CreateResult(NoError,
                 [make_cypher_target_node EXCEPT
                     !.type = LABEL_KIND_VERTEX,
                     !.variable_name = node.name,
                     !.flags = IF declared_in_current_clause
                               THEN {EXISTING_VARAIBLE_DECLARED_SAME_CLAUSE}
                               ELSE {},
                     !.tuple_position = get_target_entry_resno(tl, node.name)],
                 cp, add_volatile_wrapper(tl, node.name), lc, node)

transform_create_cypher_existing_node(cp, tl, lc, declared_in_current_clause, node) ==
    LET Fail(msg) == CreateResult(ereport(ERRCODE_FEATURE_NOT_SUPPORTED, msg, NULL),
                                  make_cypher_target_node, cp, tl, lc, node)
        rel == [make_cypher_target_node EXCEPT
                   !.type = LABEL_KIND_VERTEX,
                   !.variable_name = node.name,
                   !.flags = IF declared_in_current_clause
                             THEN {EXISTING_VARAIBLE_DECLARED_SAME_CLAUSE}
                             ELSE {},
                   !.tuple_position = get_target_entry_resno(tl, node.name)]
    IN  IF node.props
        THEN Fail("previously declared nodes in a create clause cannot have properties")
        ELSE IF node.label # NULL
        THEN Fail("previously declared variables cannot have a label")
        ELSE CreateResult(NoError, rel, cp, add_volatile_wrapper(tl, node.name),
                          lc, node)

transform_create_cypher_new_node(cp, tl, lc, node) ==
    LET node1 == IF node.label = NULL
                 THEN [node EXCEPT !.label = AG_DEFAULT_LABEL_VERTEX]
                 ELSE node
        o == OpenLabelRelation(cp, tl, lc, node1, node1.label, LABEL_KIND_VERTEX)
        te == placeholder_target_entry(o.cp, node.name)
        rel == [make_cypher_target_node EXCEPT
                   !.type = LABEL_KIND_VERTEX,
                   !.label_name = IF node.label = NULL THEN "" ELSE node.label,
                   !.flags = IF node.name # NULL
                             THEN {CYPHER_TARGET_NODE_FLAG_INSERT,
                                   CYPHER_TARGET_NODE_IS_VAR}
                             ELSE {CYPHER_TARGET_NODE_FLAG_INSERT},
                   !.relid = node1.label,
                   !.prop_attr_num = o.prop_attr_num,
                   !.variable_name = node.name,
                   !.tuple_position = IF node.name # NULL THEN te.resno
                                      ELSE InvalidAttrNumber]
    IN  IF node.name # NULL
        THEN CreateResult(NoError, rel,
                          [o.cp EXCEPT !.p_next_resno = @ + 1],
                          Append(o.tl, te), o.lc, node1)
        ELSE CreateResult(NoError, rel, o.cp, o.tl, o.lc, node1)

\* transform_create_cypher_node without the look-up of the variable
transform_create_cypher_node_always_new(cp, tl, lc, node) ==
    transform_create_cypher_new_node(cp, tl, lc, node)

transform_create_cypher_node(cp, tl, lc, node) ==
    LET entity == IF node.name = NULL THEN 0
                  ELSE find_variable(cp.entities, node.name)
    IN  IF entity # 0
        THEN IF cp.entities[entity].type # ENT_VERTEX
             THEN CreateResult(ereport(ERRCODE_FEATURE_NOT_SUPPORTED,
                                       "variable already exists", node.name),
                               make_cypher_target_node, cp, tl, lc, node)
             ELSE transform_create_cypher_existing_node(
                      cp, tl, lc,
                      cp.entities[entity].declared_in_current_clause, node)
        ELSE transform_create_cypher_new_node(cp, tl, lc, node)

\* transform_create_cypher_edge without the tests of the direction and of
\* the label
transform_create_cypher_edge_unchecked(cp, tl, lc, edge) ==
    LET Fail(msg, arg) ==
            CreateResult(ereport(ERRCODE_FEATURE_NOT_SUPPORTED, msg, arg),
                         make_cypher_target_node, cp, tl, lc, edge)
        te == placeholder_target_entry(cp, edge.name)
        cp1 == IF edge.name # NULL THEN [cp EXCEPT !.p_next_resno = @ + 1] ELSE cp
        tl1 == IF edge.name # NULL THEN Append(tl, te) ELSE tl
        o == OpenLabelRelation(cp1, tl1, lc, edge, edge.label, LABEL_KIND_EDGE)
        rel == [make_cypher_target_node EXCEPT
                   !.type = LABEL_KIND_EDGE,
                   !.label_name = edge.label,
                   !.flags = IF edge.name # NULL
                             THEN {CYPHER_TARGET_NODE_FLAG_INSERT,
                                   CYPHER_TARGET_NODE_IS_VAR}
                             ELSE {CYPHER_TARGET_NODE_FLAG_INSERT},
                   !.variable_name = edge.name,
                   !.tuple_position = IF edge.name # NULL THEN te.resno ELSE 0,
                   !.dir = edge.dir,
                   !.relid = edge.label,
                   !.prop_attr_num = o.prop_attr_num]
    IN  IF variable_exists(cp, edge.name)
        THEN Fail("variable already exists", edge.name)
        ELSE CreateResult(NoError, rel, o.cp, o.tl, o.lc, edge)

transform_create_cypher_edge(cp, tl, lc, edge) ==
    LET Fail(msg, arg) ==
            CreateResult(ereport(ERRCODE_FEATURE_NOT_SUPPORTED, msg, arg),
                         make_cypher_target_node, cp, tl, lc, edge)
        te == placeholder_target_entry(cp, edge.name)
        cp1 == IF edge.name # NULL THEN [cp EXCEPT !.p_next_resno = @ + 1] ELSE cp
        tl1 == IF edge.name # NULL THEN Append(tl, te) ELSE tl
        o == OpenLabelRelation(cp1, tl1, lc, edge, edge.label, LABEL_KIND_EDGE)
        rel == [make_cypher_target_node EXCEPT
                   !.type = LABEL_KIND_EDGE,
                   !.label_name = edge.label,
                   !.flags = IF edge.name # NULL
                             THEN {CYPHER_TARGET_NODE_FLAG_INSERT,
                                   CYPHER_TARGET_NODE_IS_VAR}
                             ELSE {CYPHER_TARGET_NODE_FLAG_INSERT},
                   !.variable_name = edge.name,
                   !.tuple_position = IF edge.name # NULL THEN te.resno ELSE 0,
                   !.dir = edge.dir,
                   !.relid = edge.label,
                   !.prop_attr_num = o.prop_attr_num]
    IN  IF variable_exists(cp, edge.name)
        THEN Fail("variable already exists", edge.name)
        ELSE IF edge.dir = CYPHER_REL_DIR_NONE
        THEN Fail("only directed relationships are allowed in CREATE", NULL)
        ELSE IF edge.label = NULL
        THEN Fail("relationships must be specify a label in CREATE.", NULL)
        ELSE CreateResult(NoError, rel, o.cp, o.tl, o.lc, edge)

\* the body of the loop of transform_cypher_create_path with the plan node
\* put at the head of the path
CreateEntity_prepend(type, r) ==
    IF r.err # NoError
    THEN RaiseOnly(r.err)
    ELSE /\ cpstate' = [r.cp EXCEPT !.entities =
                           Append(@, make_transform_entity(type, r.node, NoExpr))]
         /\ query' = [query EXCEPT !.targetList = r.tl]
         /\ labels' = r.lc
         /\ transformed_path' = <<r.rel>> \o transformed_path
         /\ elemi' = elemi + 1
         /\ UNCHANGED <<chain, cur, pc, pathi, entities, transformed, queries,
                        trace, error>>

\* the body of the loop of transform_cypher_create_path
CreateEntity(type, r) ==
    IF r.err # NoError
    THEN RaiseOnly(r.err)
    ELSE /\ cpstate' = [r.cp EXCEPT !.entities =
                           Append(@, make_transform_entity(type, r.node, NoExpr))]
         /\ query' = [query EXCEPT !.targetList = r.tl]
         /\ labels' = r.lc
         /\ transformed_path' =
                Append(transformed_path,
                       IF Path.var_name # NULL
                       THEN [r.rel EXCEPT
                               !.flags = @ \cup {CYPHER_TARGET_NODE_IN_PATH_VAR}]
                       ELSE r.rel)
         /\ elemi' = elemi + 1
         /\ UNCHANGED <<chain, cur, pc, pathi, entities, transformed, queries,
                        trace, error>>

TransformCreateNode ==
    /\ InPath
    /\ Clause.type = "cypher_create"
    /\ Path.path[elemi].kind = ENT_VERTEX
    /\ CreateEntity(ENT_VERTEX,
                    transform_create_cypher_node(cpstate, query.targetList,
                                                 labels, Path.path[elemi]))

TransformCreateEdge ==
    /\ InPath
    /\ Clause.type = "cypher_create"
    /\ Path.path[elemi].kind = ENT_EDGE
    /\ CreateEntity(ENT_EDGE,
                    transform_create_cypher_edge(cpstate, query.targetList,
                                                 labels, Path.path[elemi]))

\* transform_cypher_create_path treating every path as one without a
\* variable
TransformCreatePath_unnamed ==
    /\ InPattern
    /\ Clause.type = "cypher_create"
    /\ elemi > Len(Path.path)
    /\ transformed' =
           Append(transformed,
                  [target_nodes |-> transformed_path,
                   path_attr_num |-> InvalidAttrNumber])
    /\ transformed_path' = <<>>
    /\ pathi' = pathi + 1
    /\ elemi' = 1
    /\ UNCHANGED <<chain, labels, cur, pc, entities, queries, trace, error,
                   cpstate, query>>

\* transform_cypher_create_path once the elements of the path are
\* transformed: the placeholder of the path variable
TransformCreatePath ==
    /\ InPattern
    /\ Clause.type = "cypher_create"
    /\ elemi > Len(Path.path)
    /\ IF Path.var_name # NULL /\ Len(transformed_path) < 3
       THEN RaiseOnly(ereport(ERRCODE_FEATURE_NOT_SUPPORTED,
                              "paths consist of alternating vertices and edges.",
                              Path.var_name))
       ELSE /\ cpstate' = [cpstate EXCEPT !.p_next_resno =
                              IF Path.var_name # NULL THEN @ + 1 ELSE @]
            /\ query' = [query EXCEPT !.targetList =
                            IF Path.var_name # NULL
                            THEN Append(@, placeholder_target_entry(cpstate,
                                                                   Path.var_name))
                            ELSE @]
            /\ transformed' =
                   Append(transformed,
                          [target_nodes |-> transformed_path,
                           path_attr_num |-> IF Path.var_name # NULL
                                             THEN cpstate.p_next_resno
                                             ELSE InvalidAttrNumber])
            /\ transformed_path' = <<>>
            /\ pathi' = pathi + 1
            /\ elemi' = 1
            /\ UNCHANGED <<chain, labels, cur, pc, entities, queries, trace,
                           error>>

\* transform_cypher_create once the pattern is transformed: the plan and the
\* column of the function that runs it
TransformCreate ==
    /\ pc = "body"
    /\ Clause.type = "cypher_create"
    /\ pathi > Len(Pattern)
    /\ cpstate' = [cpstate EXCEPT !.p_next_resno = @ + 1]
    /\ query' = [query EXCEPT
          !.plan = [@ EXCEPT
                      !.paths = transformed,
                      !.flags = IF HasNext(cur) THEN @
                                ELSE @ \cup {CYPHER_CLAUSE_FLAG_TERMINAL}],
          !.targetList = Append(@, TargetEntry(
                             FuncExprOver("_cypher_create_clause", <<>>),
                             cpstate.p_next_resno, AGE_VARNAME_CREATE_CLAUSE,
                             FALSE)),
          !.rtable = cpstate.p_rtable]
    /\ pc' = "leave"
    /\ UNCHANGED <<chain, labels, cur, pathi, elemi, entities, transformed_path,
                   transformed, queries, trace, error>>

-----------------------------------------------------------------------------
(* SET, REMOVE and DELETE *)

\* what an item list transform hands back
ItemList(err, items, cp, tl) ==
    [err |-> err, items |-> items, cp |-> cp, tl |-> tl]

\* the loop of transform_cypher_delete_item_list from item i on
RECURSIVE DeleteItemsFrom(_, _, _, _, _)
DeleteItemsFrom(cp, tl, exprs, i, items) ==
    IF i > Len(exprs) THEN ItemList(NoError, items, cp, tl)
    ELSE IF get_target_entry_resno(tl, exprs[i].var) = -1
    THEN ItemList(ereport(ERRCODE_INVALID_COLUMN_REFERENCE,
                          "undefined reference to variable in DELETE clause",
                          exprs[i].var),
                  items, cp, tl)
    ELSE DeleteItemsFrom(cp, add_volatile_wrapper(tl, exprs[i].var), exprs, i + 1,
                         Append(items,
                                [var_name |-> exprs[i].var,
                                 entity_position |->
                                     get_target_entry_resno(tl, exprs[i].var)]))

transform_cypher_delete_item_list(cp, tl, exprs) ==
    DeleteItemsFrom(cp, tl, exprs, 1, <<>>)

\* the loop of transform_cypher_remove_item_list from item i on
RECURSIVE RemoveItemsFrom(_, _, _, _, _)
RemoveItemsFrom(cp, tl, set_items, i, items) ==
    IF i > Len(set_items) THEN ItemList(NoError, items, cp, tl)
    ELSE IF set_items[i].is_add
    THEN ItemList(ereport(ERRCODE_FEATURE_NOT_SUPPORTED,
                          "REMOVE clause does not support adding propereties from maps",
                          NULL),
                  items, cp, tl)
    ELSE IF set_items[i].prop_tag # "A_Indirection"
    THEN ItemList(ereport(ERRCODE_FEATURE_NOT_SUPPORTED,
                          "REMOVE clause must be in the format: REMOVE variable.property_name",
                          NULL),
                  items, cp, tl)
    ELSE IF set_items[i].arg_tag # "ColumnRef"
    THEN ItemList(ereport(ERRCODE_FEATURE_NOT_SUPPORTED,
                          "REMOVE clause must be in the format: REMOVE variable.property_name",
                          NULL),
                  items, cp, tl)
    ELSE IF get_target_entry_resno(tl, set_items[i].var) = -1
    THEN ItemList(ereport(ERRCODE_INVALID_COLUMN_REFERENCE,
                          "undefined reference to variable in REMOVE clause",
                          set_items[i].var),
                  items, cp, tl)
    ELSE IF Len(set_items[i].indirection) # 1
    THEN ItemList(ereport(ERRCODE_FEATURE_NOT_SUPPORTED,
                          "REMOVE clause must be in the format: REMOVE variable.property_name",
                          NULL),
                  items, cp, tl)
    ELSE IF set_items[i].indirection[1] # "String"
    THEN ItemList(ereport(ERRCODE_INVALID_COLUMN_REFERENCE,
                          "REMOVE clause expects a property name", NULL),
                  items, cp, tl)
    ELSE RemoveItemsFrom(cp, add_volatile_wrapper(tl, set_items[i].var),
                         set_items, i + 1,
                         Append(items,
                                [var_name |-> set_items[i].var,
                                 entity_position |->
                                     get_target_entry_resno(tl, set_items[i].var),
                                 prop_name |-> set_items[i].prop,
                                 prop_position |-> 0,
                                 remove_item |-> TRUE]))

\* transform_cypher_remove_item_list marking its items as kept
transform_cypher_remove_item_list_keeping(cp, tl, set_items) ==
    LET r == RemoveItemsFrom(cp, tl, set_items, 1, <<>>)
    IN  [r EXCEPT !.items =
            [i \in DOMAIN r.items |-> [r.items[i] EXCEPT !.remove_item = FALSE]]]

\* transform_cypher_remove_item_list reading every left side as
\* variable.property without a test
transform_cypher_remove_item_list_unchecked(cp, tl, set_items) ==
    RemoveItemsFrom(cp, tl,
                    [i \in DOMAIN set_items |->
                        [set_items[i] EXCEPT !.prop_tag = "A_Indirection",
                                             !.arg_tag = "ColumnRef",
                                             !.indirection = <<"String">>]],
                    1, <<>>)

transform_cypher_remove_item_list(cp, tl, set_items) ==
    RemoveItemsFrom(cp, tl, set_items, 1, <<>>)

\* the loop of transform_cypher_set_item_list from item i on; the new value
\* of the property gets a column of its own.  The left side is read as an
\* A_Indirection over a ColumnRef without a test: the items given to it here
\* have that form
RECURSIVE SetItemsFrom(_, _, _, _, _)
SetItemsFrom(cp, tl, set_items, i, items) ==
    IF i > Len(set_items) THEN ItemList(NoError, items, cp, tl)
    ELSE IF set_items[i].is_add
    THEN ItemList(ereport(ERRCODE_FEATURE_NOT_SUPPORTED,
                          "SET clause does not yet support adding propereties from maps",
                          NULL),
                  items, cp, tl)
    ELSE IF get_target_entry_resno(tl, set_items[i].var) = -1
    THEN ItemList(ereport(ERRCODE_INVALID_COLUMN_REFERENCE,
                          "undefined reference to variable in SET clause",
                          set_items[i].var),
                  items, cp, tl)
    ELSE IF Len(set_items[i].indirection) # 1
    THEN ItemList(ereport(ERRCODE_FEATURE_NOT_SUPPORTED,
                          "SET clause doesnt not support updating maps or lists in a property",
                          NULL),
                  items, cp, tl)
    ELSE IF set_items[i].indirection[1] # "String"
    THEN ItemList(ereport(ERRCODE_INVALID_COLUMN_REFERENCE,
                          "SET clause expects a property name", NULL),
                  items, cp, tl)
    ELSE SetItemsFrom([cp EXCEPT !.p_next_resno = @ + 1],
                      Append(add_volatile_wrapper(tl, set_items[i].var),
                             [TargetEntry(Const("literal"), cp.p_next_resno,
                                          "?column?", FALSE)
                                 EXCEPT !.volatile = TRUE]),
                      set_items, i + 1,
                      Append(items,
                             [var_name |-> set_items[i].var,
                              entity_position |->
                                  get_target_entry_resno(tl, set_items[i].var),
                              prop_name |-> set_items[i].prop,
                              prop_position |-> cp.p_next_resno,
                              remove_item |-> FALSE]))

\* transform_cypher_set_item_list reading the position of the new value
\* after the value column has taken its number
transform_cypher_set_item_list_position_after(cp, tl, set_items) ==
    [SetItemsFrom(cp, tl, set_items, 1, <<>>) EXCEPT
        !.items = [i \in DOMAIN @ |-> [@[i] EXCEPT !.prop_position = @ + 1]]]

transform_cypher_set_item_list(cp, tl, set_items) ==
    SetItemsFrom(cp, tl, set_items, 1, <<>>)

\* what the own part of a clause hands back: the error raised (or NoError),
\* the parse state and the query
Compiled(err, cp, q) == [err |-> err, cp |-> cp, query |-> q]

\* the function column and the range table that end SET, REMOVE and DELETE
FinishUpdate(cp, q, tl, plan, resname) ==
    Compiled(NoError,
             [cp EXCEPT !.p_next_resno = @ + 1],
             [q EXCEPT
                 !.plan = plan,
                 !.targetList = Append(tl,
                     TargetEntry(FuncExprOver(resname, <<>>), cp.p_next_resno,
                                 resname, FALSE)),
                 !.rtable = cp.p_rtable])

\* the terminal flag set whether or not a clause follows
TerminalFlag_always(has_next) == {CYPHER_CLAUSE_FLAG_TERMINAL}

\* if (!clause->next) flags |= CYPHER_CLAUSE_FLAG_TERMINAL
TerminalFlag(has_next) ==
    IF has_next THEN {} ELSE {CYPHER_CLAUSE_FLAG_TERMINAL}

\* transform_cypher_set with the item count tested after the items are
\* transformed
transform_cypher_set_count_after_items(cp, q, c, has_next) ==
    LET r == IF c.type = "cypher_remove"
             THEN transform_cypher_remove_item_list(cp, q.targetList, c.items)
             ELSE transform_cypher_set_item_list(cp, q.targetList, c.items)
    IN  IF r.err # NoError
        THEN Compiled(r.err, cp, q)
        ELSE IF Len(c.items) # 1
        THEN Compiled(ereport(ERRCODE_FEATURE_NOT_SUPPORTED,
                 "clause does not yet support updating more than one property",
                 clause_name(c)), cp, q)
        ELSE FinishUpdate(r.cp, q, r.tl,
                          [NoPlan EXCEPT !.kind = "update",
                                         !.items = r.items,
                                         !.clause_name = clause_name(c),
                                         !.flags = TerminalFlag(has_next)],
                          AGE_VARNAME_SET_CLAUSE)

\* transform_cypher_set after the predecessor is compiled and its columns
\* are in the target list: the item count is tested before the items are
\* looked at
transform_cypher_set(cp, q, c, has_next) ==
    LET r == IF c.type = "cypher_remove"
             THEN transform_cypher_remove_item_list(cp, q.targetList, c.items)
             ELSE transform_cypher_set_item_list(cp, q.targetList, c.items)
    IN  IF Len(c.items) # 1
        THEN Compiled(ereport(ERRCODE_FEATURE_NOT_SUPPORTED,
                 "clause does not yet support updating more than one property",
                 clause_name(c)), cp, q)
        ELSE IF r.err # NoError
        THEN Compiled(r.err, cp, q)
        ELSE FinishUpdate(r.cp, q, r.tl,
                          [NoPlan EXCEPT !.kind = "update",
                                         !.items = r.items,
                                         !.clause_name = clause_name(c),
                                         !.flags = TerminalFlag(has_next)],
                          AGE_VARNAME_SET_CLAUSE)

\* transform_cypher_delete after the predecessor is compiled and its columns
\* are in the target list
transform_cypher_delete(cp, q, c, has_next) ==
    LET r == transform_cypher_delete_item_list(cp, q.targetList, c.items)
    IN  IF r.err # NoError
        THEN Compiled(r.err, cp, q)
        ELSE FinishUpdate(r.cp, q, r.tl,
                          [NoPlan EXCEPT !.kind = "delete",
                                         !.items = r.items,
                                         !.flags = TerminalFlag(has_next)],
                          AGE_VARNAME_DELETE_CLAUSE)

\* the own part of a clause that is compiled in one step
CompileBody(r) ==
    IF r.err # NoError
    THEN RaiseOnly(r.err)
    ELSE /\ cpstate' = r.cp
         /\ query' = r.query
         /\ pc' = "leave"
         /\ UNCHANGED <<chain, labels, cur, pathi, elemi, entities,
                        transformed_path, transformed, queries, trace, error>>

TransformSet ==
    /\ pc = "body"
    /\ Clause.type \in {"cypher_set", "cypher_remove"}
    /\ CompileBody(transform_cypher_set(cpstate, query, Clause, HasNext(cur)))

TransformDelete ==
    /\ pc = "body"
    /\ Clause.type = "cypher_delete"
    /\ CompileBody(transform_cypher_delete(cpstate, query, Clause, HasNext(cur)))

-----------------------------------------------------------------------------
(* RETURN and WITH: the expressions *)

\* an aggregate call as the expression compiler leaves it
Aggref(fn) ==
    [tag |-> "Aggref", varno |-> 0, varattno |-> 0, name |-> fn, args |-> <<>>]

\* the function names that are aggregates
AggregateNames == {"count"}

\* what the expression compiler hands back: the error raised (or NoError)
\* and the expression
ExprResult(err, expr) == [err |-> err, expr |-> expr]

\* the expression compiler, an outside collaborator: a variable becomes the
\* Var of the one visible column of that name, a literal a Const, an
\* aggregate call an Aggref, an operator a function over its operands
RECURSIVE transform_cypher_expr(_, _)
transform_cypher_expr(rtable, node) ==
    IF node.op = "ColumnRef"
    THEN LET cv == colNameToVar(rtable, node.col)
         IN  IF cv.err # NoError THEN ExprResult(cv.err, NoExpr)
             ELSE IF cv.expr = NoExpr
             THEN ExprResult(ereport(ERRCODE_UNDEFINED_COLUMN,
                                     "could not find rte for", node.col),
                             NoExpr)
             ELSE ExprResult(NoError, cv.expr)
    ELSE IF node.op = "A_Const" THEN ExprResult(NoError, Const(node.label))
    ELSE IF node.op \in AggregateNames THEN ExprResult(NoError, Aggref(node.op))
    ELSE LET rs == [i \in DOMAIN node.args |->
                       transform_cypher_expr(rtable, node.args[i])]
             bad == FirstIndex(LAMBDA r : r.err # NoError, rs)
         IN  IF bad # 0 THEN ExprResult(rs[bad].err, NoExpr)
             ELSE ExprResult(NoError,
                             FuncExprOver(node.op,
                                          [i \in DOMAIN rs |-> rs[i].expr]))

\* Does the expression hold a Var of the given level?  Every Var the
\* compiler makes is of level 0
RECURSIVE contain_vars_of_level(_, _)
contain_vars_of_level(expr, levelsup) ==
    \/ IsA(expr, "Var") /\ levelsup = 0
    \/ \E i \in DOMAIN expr.args : contain_vars_of_level(expr.args[i], levelsup)

\* Does the expression hold an aggregate?
RECURSIVE contain_aggs_of_level(_, _)
contain_aggs_of_level(expr, levelsup) ==
    \/ IsA(expr, "Aggref") /\ levelsup = 0
    \/ \E i \in DOMAIN expr.args : contain_aggs_of_level(expr.args[i], levelsup)

INT8OID == "int8"
BOOLOID == "bool"

\* coerce_to_specific_type / coerce_to_boolean: the cast around the expression
coerce_to_specific_type(expr, type) == FuncExprOver(type, <<expr>>)

\* transform_cypher_limit accepting every expression
transform_cypher_limit_unchecked(rtable, node, construct_name) ==
    IF node = NoNode THEN ExprResult(NoError, NoExpr)
    ELSE LET r == transform_cypher_expr(rtable, node)
         IN  IF r.err # NoError THEN r
             ELSE ExprResult(NoError, coerce_to_specific_type(r.expr, INT8OID))

\* transform_cypher_limit: SKIP and LIMIT
transform_cypher_limit(rtable, node, construct_name) ==
    IF node = NoNode THEN ExprResult(NoError, NoExpr)
    ELSE LET r == transform_cypher_expr(rtable, node)
             qual == coerce_to_specific_type(r.expr, INT8OID)
         IN  IF r.err # NoError THEN r
             ELSE IF contain_vars_of_level(qual, 0)
             THEN ExprResult(ereport(ERRCODE_INVALID_COLUMN_REFERENCE,
                                     "argument must not contain variables",
                                     construct_name),
                             NoExpr)
             ELSE ExprResult(NoError, qual)

-----------------------------------------------------------------------------
(* RETURN and WITH: target list, ORDER BY and the automatic GROUP BY *)

\* the name of a column that has no alias
FigureColname(node) ==
    IF node.op = "ColumnRef" THEN node.col
    ELSE IF node.op \in AggregateNames THEN node.op
    ELSE "?column?"

\* what the steps of RETURN hand on: the error raised (or NoError), the parse
\* state, the target list and the list the step builds
Projection(err, cp, tl, list) == [err |-> err, cp |-> cp, tl |-> tl, list |-> list]

RECURSIVE ItemListFrom(_, _, _, _, _)

\* the body of the loop of transform_cypher_item_list: r is the transformed
\* expression of item i
ItemListStep(cp, items, i, tl, group, r) ==
    IF r.err # NoError THEN Projection(r.err, cp, tl, group)
    ELSE ItemListFrom([cp EXCEPT !.p_next_resno = @ + 1], items, i + 1,
                      Append(tl, TargetEntry(r.expr, cp.p_next_resno,
                                             IF items[i].name = NULL
                                             THEN FigureColname(items[i].val)
                                             ELSE items[i].name,
                                             FALSE)),
                      IF contain_aggs_of_level(r.expr, 0) THEN group
                      ELSE Append(group, items[i].val))

\* the loop of transform_cypher_item_list from item i on: one column per
\* item; group holds the items without an aggregate
ItemListFrom(cp, items, i, tl, group) ==
    IF i > Len(items) THEN Projection(NoError, cp, tl, group)
    ELSE ItemListStep(cp, items, i, tl, group,
                      transform_cypher_expr(cp.p_rtable, items[i].val))

\* the group keys are handed back only when some item holds an aggregate
ItemListKeys(r) ==
    IF \E i \in DOMAIN r.tl : contain_aggs_of_level(r.tl[i].expr, 0)
    THEN r ELSE [r EXCEPT !.list = <<>>]

transform_cypher_item_list(cp, items) ==
    ItemListKeys(ItemListFrom(cp, items, 1, <<>>, <<>>))

\* the search of find_target_list_entry: r is the transformed node, found
\* the place of the first target entry with an equal expression (or 0)
TargetListEntryOf(cp, tl, r, found) ==
    IF r.err # NoError THEN Projection(r.err, cp, tl, 0)
    ELSE IF found # 0 THEN Projection(NoError, cp, tl, found)
    ELSE Projection(NoError, [cp EXCEPT !.p_next_resno = @ + 1],
                    Append(tl, TargetEntry(r.expr, cp.p_next_resno, NULL, TRUE)),
                    Len(tl) + 1)

FirstEqualEntry(tl, r) == FirstIndex(LAMBDA te : te.expr = r.expr, tl)

\* find_target_list_entry: the first target entry whose expression equals
\* the transformed node, or a new junk entry at the end; list is the index
\* of the entry
find_target_list_entry(cp, node, tl) ==
    TargetListEntryOf(cp, tl, transform_cypher_expr(cp.p_rtable, node),
                      FirstEqualEntry(tl, transform_cypher_expr(cp.p_rtable, node)))

InvalidOid == "InvalidOid"

\* the operators of agtype
get_commutator(op) ==
    CASE op = "<" -> ">" [] op = ">" -> "<" [] OTHER -> op

SortGroupClause(ref, eqop, sortop, nulls_first) ==
    [tleSortGroupRef |-> ref, eqop |-> eqop, sortop |-> sortop,
     nulls_first |-> nulls_first, hashable |-> TRUE]

\* assignSortGroupRef: the reference of the entry, a new one (the greatest
\* of the list plus one) when it has none
assignSortGroupRef(tl, i) ==
    IF tl[i].ressortgroupref # 0 THEN tl
    ELSE LET maxRef == CHOOSE m \in {0} \cup {tl[j].ressortgroupref : j \in DOMAIN tl} :
                           \A j \in DOMAIN tl : tl[j].ressortgroupref <= m
         IN  [tl EXCEPT ![i].ressortgroupref = maxRef + 1]

targetIsInSortList(tle, sortop, sortList) ==
    /\ tle.ressortgroupref # 0
    /\ \E k \in DOMAIN sortList :
          /\ sortList[k].tleSortGroupRef = tle.ressortgroupref
          /\ \/ sortop = InvalidOid
             \/ sortop = sortList[k].sortop
             \/ sortop = get_commutator(sortList[k].sortop)

\* addTargetToSortList of the relational parser
addTargetToSortList(tl, i, sortlist, sortby) ==
    LET reverse == sortby.sortby_dir = SORTBY_DESC
        sortop == IF reverse THEN ">" ELSE "<"
        tl1 == assignSortGroupRef(tl, i)
        nulls_first == CASE sortby.sortby_nulls = SORTBY_NULLS_FIRST -> TRUE
                         [] sortby.sortby_nulls = SORTBY_NULLS_LAST -> FALSE
                         [] OTHER -> reverse
    IN  IF targetIsInSortList(tl[i], sortop, sortlist)
        THEN [tl |-> tl, list |-> sortlist]
        ELSE [tl |-> tl1,
              list |-> Append(sortlist,
                              SortGroupClause(tl1[i].ressortgroupref, "=",
                                              sortop, nulls_first))]

RECURSIVE OrderByFrom(_, _, _, _, _)

OrderBySorted(cp, sort_items, i, s) ==
    OrderByFrom(cp, sort_items, i + 1, s.tl, s.list)

\* the body of the loop of transform_cypher_order_by: f is the target entry
\* of sort item i
OrderByFound(cp, sort_items, i, tl, sort_list, f) ==
    IF f.err # NoError THEN Projection(f.err, cp, tl, sort_list)
    ELSE OrderBySorted(f.cp, sort_items, i,
                       addTargetToSortList(f.tl, f.list, sort_list, sort_items[i]))

\* the loop of transform_cypher_order_by from sort item i on
OrderByFrom(cp, sort_items, i, tl, sort_list) ==
    IF i > Len(sort_items) THEN Projection(NoError, cp, tl, sort_list)
    ELSE OrderByFound(cp, sort_items, i, tl, sort_list,
                      find_target_list_entry(cp, sort_items[i].node, tl))

transform_cypher_order_by(cp, sort_items, tl) ==
    OrderByFrom(cp, sort_items, 1, tl, <<>>)

\* add_target_to_group_list: default sort and equality operators, nulls last
add_target_to_group_list(tl, i, grouplist) ==
    LET tl1 == assignSortGroupRef(tl, i)
    IN  IF targetIsInSortList(tl[i], InvalidOid, grouplist)
        THEN [tl |-> tl, list |-> grouplist]
        ELSE [tl |-> tl1,
              list |-> Append(grouplist,
                              SortGroupClause(tl1[i].ressortgroupref, "=", "<",
                                              FALSE))]

\* transform_group_clause_expr never looking at ORDER BY
transform_group_clause_expr_default(flatresult, seen_local, cp, gexpr, tl, sortClause) ==
    LET f == find_target_list_entry(cp, gexpr, tl)
        g == add_target_to_group_list(f.tl, f.list, flatresult)
    IN  IF f.err # NoError THEN Projection(f.err, cp, tl, flatresult)
        ELSE IF f.tl[f.list].ressortgroupref \in seen_local
        THEN Projection(NoError, f.cp, f.tl, flatresult)
        ELSE Projection(NoError, f.cp, g.tl, g.list)

\* transform_group_clause_expr once the target entry f of the key is found
GroupClauseExprOn(flatresult, seen_local, cp, tl, sortClause, f) ==
    LET tle == f.tl[f.list]
        sl == FirstIndex(LAMBDA sc : sc.tleSortGroupRef = tle.ressortgroupref,
                         sortClause)
        g == add_target_to_group_list(f.tl, f.list, flatresult)
    IN  IF f.err # NoError THEN Projection(f.err, cp, tl, flatresult)
        ELSE IF tle.ressortgroupref > 0 /\ tle.ressortgroupref \in seen_local
        THEN Projection(NoError, f.cp, f.tl, flatresult)
        ELSE IF tle.ressortgroupref > 0
                /\ targetIsInSortList(tle, InvalidOid, flatresult)
        THEN Projection(NoError, f.cp, f.tl, flatresult)
        ELSE IF tle.ressortgroupref > 0 /\ sl # 0
        THEN Projection(NoError, f.cp, f.tl, Append(flatresult, sortClause[sl]))
        ELSE Projection(NoError, f.cp, g.tl, g.list)

\* transform_group_clause_expr at top level: a key that ORDER BY sorts on
\* takes a copy of the first sort clause on it
transform_group_clause_expr(flatresult, seen_local, cp, gexpr, tl, sortClause) ==
    GroupClauseExprOn(flatresult, seen_local, cp, tl, sortClause,
                      find_target_list_entry(cp, gexpr, tl))

RECURSIVE GroupClauseFrom(_, _, _, _, _, _, _)

\* the body of the loop of transform_group_clause: r is what
\* transform_group_clause_expr hands back for key i, the entry at place
\* entry of the target list
GroupClauseStep(grouplist, i, sortClause, seen_local, r, entry) ==
    LET ref == IF r.tl[entry].ressortgroupref \in seen_local THEN 0
               ELSE r.tl[entry].ressortgroupref
    IN  IF r.err # NoError THEN r
        ELSE GroupClauseFrom(r.cp, grouplist, i + 1, r.tl, sortClause, r.list,
                             IF ref > 0 THEN seen_local \cup {ref}
                             ELSE seen_local)

\* the loop of transform_group_clause from group key i on
GroupClauseFrom(cp, grouplist, i, tl, sortClause, result, seen_local) ==
    IF i > Len(grouplist) THEN Projection(NoError, cp, tl, result)
    ELSE GroupClauseStep(grouplist, i, sortClause, seen_local,
                         transform_group_clause_expr(result, seen_local, cp,
                                                     grouplist[i], tl, sortClause),
                         find_target_list_entry(cp, grouplist[i], tl).list)

transform_group_clause(cp, grouplist, tl, sortClause) ==
    GroupClauseFrom(cp, grouplist, 1, tl, sortClause, <<>>, {})

-----------------------------------------------------------------------------
(* RETURN and WITH: the clause *)

ERRCODE_GROUPING_ERROR == "grouping_error"

\* the target entry a sort or group clause refers to, as an index
get_sortgroupclause_tle(scl, tl) ==
    FirstIndex(LAMBDA te : te.ressortgroupref = scl.tleSortGroupRef, tl)

\* the second loop of transformDistinctClause, from target entry i on
RECURSIVE DistinctFrom(_, _, _)
DistinctFrom(tl, i, result) ==
    IF i > Len(tl) THEN [tl |-> tl, list |-> result]
    ELSE IF tl[i].resjunk THEN DistinctFrom(tl, i + 1, result)
    ELSE LET g == add_target_to_group_list(tl, i, result)
         IN  DistinctFrom(g.tl, i + 1, g.list)

\* transformDistinctClause of the relational parser: the sort clauses first,
\* then the other columns
transformDistinctClause(cp, tl, sortClause) ==
    LET d == DistinctFrom(tl, 1, sortClause)
    IN  IF \E k \in DOMAIN sortClause :
               tl[get_sortgroupclause_tle(sortClause[k], tl)].resjunk
        THEN Projection(ereport(ERRCODE_INVALID_COLUMN_REFERENCE,
                 "for SELECT DISTINCT, ORDER BY expressions must appear in select list",
                 NULL), cp, tl, <<>>)
        ELSE IF d.list = <<>>
        THEN Projection(ereport(ERRCODE_FEATURE_NOT_SUPPORTED,
                 "SELECT DISTINCT must have at least one column", NULL),
                 cp, tl, <<>>)
        ELSE Projection(NoError, cp, d.tl, d.list)

\* Is every Var of the expression inside an aggregate or a group key?
RECURSIVE IsGrouped(_, _)
IsGrouped(expr, keys) ==
    \/ expr \in keys
    \/ IsA(expr, "Aggref")
    \/ /\ ~IsA(expr, "Var")
       /\ \A i \in DOMAIN expr.args : IsGrouped(expr.args[i], keys)

\* parse_check_aggregates of the relational parser: the error it raises, or
\* NoError
parse_check_aggregates(q) ==
    LET keys == {q.targetList[get_sortgroupclause_tle(q.groupClause[k],
                                                      q.targetList)].expr :
                    k \in DOMAIN q.groupClause}
    IN  IF \A i \in DOMAIN q.targetList : IsGrouped(q.targetList[i].expr, keys)
        THEN NoError
        ELSE ereport(ERRCODE_GROUPING_ERROR,
                     "column must appear in the GROUP BY clause or be used in an aggregate function",
                     NULL)

\* the end of transform_cypher_return: the check of the aggregates
ReturnChecked(cp, q, cp1, result) ==
    IF (result.hasAggs \/ result.groupClause # <<>>)
       /\ parse_check_aggregates(result) # NoError
    THEN Compiled(parse_check_aggregates(result), cp, q)
    ELSE Compiled(NoError, cp1, result)

\* transform_cypher_return from the query fields on
ReturnQuery(cp, q, sort, group, distinct, skip, limit) ==
    IF skip.err # NoError THEN Compiled(skip.err, cp, q)
    ELSE IF limit.err # NoError THEN Compiled(limit.err, cp, q)
    ELSE ReturnChecked(cp, q, distinct.cp,
             [q EXCEPT
                 !.targetList = distinct.tl,
                 !.sortClause = sort.list,
                 !.groupClause = group.list,
                 !.distinctClause = distinct.list,
                 !.limitOffset = skip.expr,
                 !.limitCount = limit.expr,
                 !.rtable = distinct.cp.p_rtable,
                 !.hasAggs = \E i \in DOMAIN distinct.tl :
                                 contain_aggs_of_level(distinct.tl[i].expr, 0)])

\* transform_cypher_return from SKIP and LIMIT on
ReturnLimit(cp, q, c, sort, group, distinct) ==
    IF distinct.err # NoError THEN Compiled(distinct.err, cp, q)
    ELSE ReturnQuery(cp, q, sort, group, distinct,
                     transform_cypher_limit(distinct.cp.p_rtable, c.skip, "SKIP"),
                     transform_cypher_limit(distinct.cp.p_rtable, c.limit, "LIMIT"))

\* transform_cypher_return from DISTINCT on
ReturnDistinct(cp, q, c, sort, group) ==
    IF group.err # NoError THEN Compiled(group.err, cp, q)
    ELSE ReturnLimit(cp, q, c, sort, group,
                     IF c.distinct
                     THEN transformDistinctClause(group.cp, group.tl, sort.list)
                     ELSE Projection(NoError, group.cp, group.tl, <<>>))

\* transform_cypher_return from the automatic GROUP BY on
ReturnGroupBy(cp, q, c, items, sort) ==
    IF sort.err # NoError THEN Compiled(sort.err, cp, q)
    ELSE ReturnDistinct(cp, q, c, sort,
                        transform_group_clause(sort.cp, items.list, sort.tl,
                                               sort.list))

\* transform_cypher_return from ORDER BY on
ReturnOrderBy(cp, q, c, items) ==
    IF items.err # NoError THEN Compiled(items.err, cp, q)
    ELSE ReturnGroupBy(cp, q, c, items,
                       transform_cypher_order_by(items.cp, c.order_by, items.tl))

\* transform_cypher_return after the predecessor is compiled
transform_cypher_return(cp, q, c) ==
    ReturnOrderBy(cp, q, c, transform_cypher_item_list(cp, c.items))

\* the query of transform_cypher_clause_with_where over the sub-relation
WhereQuery(cp, q, parent, cols, qual) ==
    IF qual.err # NoError THEN Compiled(qual.err, cp, q)
    ELSE Compiled(NoError,
                  [parent EXCEPT !.p_next_resno = Len(cols) + 1],
                  [makeQuery EXCEPT
                      !.targetList = cols,
                      !.rtable = parent.p_rtable,
                      !.jointree = ExprArg(coerce_to_specific_type(qual.expr,
                                                                   BOOLOID))])

WhereOverSubquery(cp, q, c, parent) ==
    WhereQuery(cp, q, parent, expandRelAttrs(parent.p_rtable[1].colnames),
               transform_cypher_expr(parent.p_rtable, c.where))

WhereOver(cp, q, c, r) ==
    IF r.err # NoError THEN r
    ELSE WhereOverSubquery(cp, q, c,
                           transform_cypher_clause_as_subquery(r.cp, r.query))

\* transform_cypher_clause_with_where around transform_cypher_return: with a
\* WHERE, the RETURN is compiled in a child parse state and becomes the
\* sub-relation "_" of a query that shows its columns and filters them
transform_cypher_clause_with_where(cp, q, c) ==
    IF c.where = NoNode THEN transform_cypher_return(cp, q, c)
    ELSE WhereOver(cp, q, c, transform_cypher_return(cp, q, c))

\* transform_cypher_return / transform_cypher_with
TransformReturn ==
    /\ pc = "body"
    /\ Clause.type \in {"cypher_return", "cypher_with"}
    /\ CompileBody(transform_cypher_clause_with_where(cpstate, query, Clause))

-----------------------------------------------------------------------------
(* Specifications *)

\* the catalog before compilation: the two default labels, two vertex
\* labels and two edge labels
InitialLabels ==
    [l \in {AG_DEFAULT_LABEL_VERTEX, AG_DEFAULT_LABEL_EDGE, "L", "M", "T", "U"} |->
        IF l \in {AG_DEFAULT_LABEL_VERTEX, "L", "M"}
        THEN LABEL_KIND_VERTEX ELSE LABEL_KIND_EDGE]

\* the compiler is called on the last clause of a chain
InitChain(chains) ==
    /\ chain \in chains
    /\ labels = InitialLabels
    /\ cur = Len(chain)
    /\ pc = "enter"
    /\ pathi = 1
    /\ elemi = 1
    /\ cpstate = make_cypher_parsestate
    /\ query = makeQuery
    /\ entities = <<>>
    /\ transformed_path = <<>>
    /\ transformed = <<>>
    /\ queries = <<>>
    /\ trace = <<>>
    /\ error = NoError

VertexNames == <<"a", "b", "c", "d", "e">>

\* the vertices a path may hold at place k: named, bare, with a label, with
\* a property map
JoinVertices(k) ==
    {cypher_node(VertexNames[k], NULL, FALSE), cypher_node(NULL, NULL, FALSE),
     cypher_node(NULL, "L", FALSE), cypher_node(NULL, NULL, TRUE)}

JoinEdges == {cypher_relationship(NULL, NULL, FALSE, d) : d \in Directions}

\* the element lists of the paths with k edges
RECURSIVE JoinPaths(_)
JoinPaths(k) ==
    IF k = 0 THEN {<<v>> : v \in JoinVertices(1)}
    ELSE {p \o <<e, v>> : p \in JoinPaths(k - 1), e \in JoinEdges,
                          v \in JoinVertices(k + 1)}

\* one MATCH clause over one path of at most MaxEdges edges
JoinChains ==
    {<<cypher_match(<<cypher_path(pv, p)>>)>> :
        pv \in {NULL, "p"}, p \in UNION {JoinPaths(k) : k \in 0..MaxEdges}}

InitJoin == InitChain(JoinChains)

NextMatch ==
    \/ TransformClause
    \/ TransformMatchNode
    \/ TransformMatchEdge
    \/ TransformMatchPath
    \/ TransformMatchPattern
    \/ AnalyzeClause

SpecJoin == InitJoin /\ [][NextMatch]_vars

\* the paths that bind or re-reference the vertex a or the edge e
RerefPaths ==
    {<<cypher_node("a", l, pr)>> : l \in {NULL, "L", "M"}, pr \in BOOLEAN}
    \cup
    {<<cypher_node(NULL, NULL, FALSE),
       cypher_relationship("e", l, pr, CYPHER_REL_DIR_RIGHT),
       cypher_node(NULL, NULL, FALSE)>> : l \in {NULL, "T", "U"}, pr \in BOOLEAN}

\* the chains of MATCH clauses that hold n of these paths between them
RECURSIVE RerefChains(_)
RerefChains(n) ==
    IF n = 1 THEN {<<cypher_match(<<cypher_path(NULL, p)>>)>> : p \in RerefPaths}
    ELSE LET shorter == RerefChains(n - 1)
         IN  {Append(c, cypher_match(<<cypher_path(NULL, p)>>)) :
                 c \in shorter, p \in RerefPaths}
             \cup
             {[c EXCEPT ![Len(c)].pattern = Append(@, cypher_path(NULL, p))] :
                 c \in shorter, p \in RerefPaths}

InitReref == InitChain(UNION {RerefChains(n) : n \in 1..MaxRefs})

SpecReref == InitReref /\ [][NextMatch]_vars

\* the vertices of a CREATE path: bare, with a name the prefix may have
\* bound, with a label of the catalog or a new one, with a property map
CreateVertices ==
    {cypher_node(n, l, FALSE) : n \in {NULL, "a", "b", "e"}, l \in {NULL, "N"}}
    \cup {cypher_node("a", NULL, TRUE), cypher_node(NULL, NULL, TRUE)}

CreateEdges ==
    {cypher_relationship(n, "T", FALSE, d) :
        n \in {NULL, "e"}, d \in Directions}
    \cup {cypher_relationship(n, l, FALSE, CYPHER_REL_DIR_RIGHT) :
             n \in {NULL, "e"}, l \in {NULL, "W"}}

CreatePaths ==
    {<<v>> : v \in CreateVertices}
    \cup {<<v, e, w>> : v \in CreateVertices, e \in CreateEdges,
                        w \in CreateVertices}

\* what comes before the CREATE clause: nothing, a MATCH that binds a, or a
\* MATCH that binds a, e and b
CreatePrefixes ==
    {<<>>,
     <<cypher_match(<<cypher_path(NULL, <<cypher_node("a", NULL, FALSE)>>)>>)>>,
     <<cypher_match(<<cypher_path(NULL,
          <<cypher_node("a", NULL, FALSE),
            cypher_relationship("e", NULL, FALSE, CYPHER_REL_DIR_RIGHT),
            cypher_node("b", NULL, FALSE)>>)>>)>>}

\* paths of two edges
CreateLongPaths ==
    {<<cypher_node(n, NULL, FALSE),
       cypher_relationship(f, "T", FALSE, CYPHER_REL_DIR_RIGHT),
       cypher_node(NULL, "N", FALSE),
       cypher_relationship("f", "T", FALSE, d),
       cypher_node("b", NULL, FALSE)>> :
        n \in {NULL, "a"}, f \in {NULL, "f"}, d \in Directions}

CreateChains ==
    {Append(pre, cypher_create(<<cypher_path(pv, p)>>)) :
        pre \in CreatePrefixes, pv \in {NULL, "p"},
        p \in CreatePaths \cup CreateLongPaths}

InitCreate == InitChain(CreateChains)

NextCreate ==
    \/ NextMatch
    \/ TransformCreateNode
    \/ TransformCreateEdge
    \/ TransformCreatePath
    \/ TransformCreate

SpecCreate == InitCreate /\ [][NextCreate]_vars

\* the sequences over set S of at most n elements
RECURSIVE SeqsUpTo(_, _)
SeqsUpTo(S, n) ==
    IF n = 0 THEN {<<>>}
    ELSE SeqsUpTo(S, n - 1)
         \cup {Append(q, x) : q \in {t \in SeqsUpTo(S, n - 1) : Len(t) = n - 1},
                              x \in S}

\* the variables an item may name: a and b (bound by some prefixes) and z
\* (bound by none)
UpdateNames == {"a", "b", "z"}

UpdateItems ==
    {cypher_set_item(v, "p", FALSE) : v \in UpdateNames}
    \cup {cypher_set_item("a", "p", TRUE)}

\* left sides that are not variable.property: a.p.q, a[0], z[0], and for
\* REMOVE also a, z and f(a).p
IndirectionItems ==
    {indirection_item("a", "p", <<"String", "String">>),
     indirection_item("a", NULL, <<"A_Indices">>),
     indirection_item("z", NULL, <<"A_Indices">>)}

RemoveOnlyItems ==
    {bare_variable_item("a"), bare_variable_item("z"),
     function_property_item("p")}

UpdateClauses ==
    {cypher_set(items) : items \in SeqsUpTo(UpdateItems, MaxItems)}
    \cup {cypher_set(<<item>>) : item \in IndirectionItems}
    \cup {cypher_remove(items) : items \in SeqsUpTo(UpdateItems, MaxItems)}
    \cup {cypher_remove(<<item>>) : item \in IndirectionItems \cup RemoveOnlyItems}
    \cup {cypher_delete(exprs) :
             exprs \in SeqsUpTo({ColumnRefItem(v) : v \in UpdateNames}, MaxItems)}

\* what comes before the clause: nothing, a MATCH that binds a, a MATCH that
\* binds a, e and b, a CREATE that binds a and b, a MATCH that binds a
\* followed by a CREATE that binds b, a MATCH that binds a, e and b
\* followed by a WITH that hands on a alone, or the same followed by a
\* CREATE of an edge from a to b
UpdatePrefixes ==
    CreatePrefixes
    \cup {<<cypher_match(<<cypher_path(NULL,
              <<cypher_node("a", NULL, FALSE),
                cypher_relationship("e", NULL, FALSE, CYPHER_REL_DIR_RIGHT),
                cypher_node("b", NULL, FALSE)>>)>>),
            cypher_with(FALSE, <<ResTarget(VariableRef("a"), NULL)>>, <<>>,
                        NoNode, NoNode, NoNode),
            cypher_create(<<cypher_path(NULL,
              <<cypher_node("a", NULL, FALSE),
                cypher_relationship(NULL, "T", FALSE, CYPHER_REL_DIR_RIGHT),
                cypher_node("b", NULL, FALSE)>>)>>)>>}
    \cup {<<cypher_match(<<cypher_path(NULL, <<cypher_node("a", NULL, FALSE)>>)>>),
            cypher_create(<<cypher_path(NULL,
              <<cypher_node("a", NULL, FALSE),
                cypher_relationship(NULL, "T", FALSE, CYPHER_REL_DIR_RIGHT),
                cypher_node("b", NULL, FALSE)>>)>>)>>}
    \cup {<<cypher_create(<<cypher_path(NULL,
              <<cypher_node("a", NULL, FALSE),
                cypher_relationship(NULL, "T", FALSE, CYPHER_REL_DIR_RIGHT),
                cypher_node("b", NULL, FALSE)>>)>>)>>}
    \cup {<<cypher_match(<<cypher_path(NULL,
              <<cypher_node("a", NULL, FALSE),
                cypher_relationship("e", NULL, FALSE, CYPHER_REL_DIR_RIGHT),
                cypher_node("b", NULL, FALSE)>>)>>),
            cypher_with(FALSE, <<ResTarget(VariableRef("a"), NULL)>>, <<>>,
                        NoNode, NoNode, NoNode)>>}

\* what comes after it: nothing, or a DELETE
UpdateSuffixes == {<<>>, <<cypher_delete(<<ColumnRefItem("a")>>)>>}

UpdateChains ==
    {pre \o <<c>> \o post :
        pre \in UpdatePrefixes, c \in UpdateClauses, post \in UpdateSuffixes}

InitUpdate == InitChain(UpdateChains)

\* the chains of RETURN and WITH
MaxReturnItems == 2
MaxSortItems == 2

\* the expressions of the items: the variables a and b, count(*) and a + 1
ReturnExprs ==
    {VariableRef("a"), VariableRef("b"), FuncCall("count", <<>>),
     makeSimpleA_Expr("+", VariableRef("a"), A_Const("1"))}

ReturnItems == {ResTarget(e, NULL) : e \in ReturnExprs}

\* the sort items: a, a DESC, a DESC NULLS LAST, b NULLS FIRST, count(*) DESC
SortItems ==
    {SortBy(VariableRef("a"), SORTBY_DEFAULT, SORTBY_NULLS_DEFAULT),
     SortBy(VariableRef("a"), SORTBY_DESC, SORTBY_NULLS_DEFAULT),
     SortBy(VariableRef("a"), SORTBY_DESC, SORTBY_NULLS_LAST),
     SortBy(VariableRef("b"), SORTBY_ASC, SORTBY_NULLS_FIRST),
     SortBy(FuncCall("count", <<>>), SORTBY_DESC, SORTBY_NULLS_DEFAULT)}

\* the expressions of SKIP and LIMIT: absent, a literal, closed arithmetic,
\* a bound variable, arithmetic over a bound variable, an unbound variable
LimitExprs ==
    {NoNode, A_Const("1"), makeSimpleA_Expr("+", A_Const("1"), A_Const("2")),
     VariableRef("a"), makeSimpleA_Expr("+", VariableRef("a"), A_Const("1")),
     VariableRef("z")}

\* what comes before the RETURN: nothing, or a MATCH that binds a, e and b
ReturnPrefixes ==
    {<<>>,
     <<cypher_match(<<cypher_path(NULL,
           <<cypher_node("a", NULL, FALSE),
             cypher_relationship("e", NULL, FALSE, CYPHER_REL_DIR_RIGHT),
             cypher_node("b", NULL, FALSE)>>)>>)>>}

LimitChains ==
    {pre \o <<cypher_return(FALSE, <<ResTarget(A_Const("1"), NULL)>>, <<>>, s, l)>> :
        pre \in ReturnPrefixes, s \in LimitExprs, l \in LimitExprs}

GroupChains ==
    {pre \o <<cypher_return(FALSE, items, order_by, NoNode, NoNode)>> :
        pre \in ReturnPrefixes \ {<<>>},
        items \in SeqsUpTo(ReturnItems, MaxReturnItems),
        order_by \in SeqsUpTo(SortItems, MaxSortItems)}

DistinctChains ==
    {pre \o <<cypher_return(TRUE, items, order_by, NoNode, NoNode)>> :
        pre \in ReturnPrefixes \ {<<>>},
        items \in SeqsUpTo(ReturnItems, 1),
        order_by \in SeqsUpTo(SortItems, 1)}

\* MATCH (a)-[e]->(b) WITH ... [WHERE ...] RETURN a
WithChains ==
    {pre \o <<cypher_with(FALSE, items, <<>>, NoNode, l, where),
              cypher_return(FALSE, <<ResTarget(VariableRef("a"), NULL)>>, <<>>,
                            NoNode, NoNode)>> :
        pre \in ReturnPrefixes \ {<<>>},
        items \in {<<ResTarget(VariableRef("a"), NULL)>>,
                   <<ResTarget(VariableRef("b"), "a")>>,
                   <<ResTarget(VariableRef("b"), NULL)>>,
                   <<ResTarget(VariableRef("a"), NULL),
                     ResTarget(FuncCall("count", <<>>), "c")>>},
        l \in {NoNode, VariableRef("a")},
        where \in {NoNode, VariableRef("a"), VariableRef("b")}}

ReturnChains == LimitChains \cup GroupChains \cup DistinctChains \cup WithChains

InitReturn == InitChain(ReturnChains)

NextReturn ==
    \/ NextMatch
    \/ TransformReturn

SpecReturn == InitReturn /\ [][NextReturn]_vars

\* every step of the compiler
Next ==
    \/ TransformClause
    \/ TransformMatchNode
    \/ TransformMatchEdge
    \/ TransformMatchPath
    \/ TransformMatchPattern
    \/ TransformCreateNode
    \/ TransformCreateEdge
    \/ TransformCreatePath
    \/ TransformCreate
    \/ TransformSet
    \/ TransformDelete
    \/ TransformReturn
    \/ AnalyzeClause

SpecUpdate == InitUpdate /\ [][Next]_vars

\* every chain of the specifications above
Init == InitJoin \/ InitReref \/ InitCreate \/ InitUpdate \/ InitReturn

Spec == Init /\ [][Next]_vars

-----------------------------------------------------------------------------
(* MATCH: re-references of a bound variable (C1, C2) *)

\* a MATCH clause is about to transform the element at elemi of a path
AtMatchElement == InPath /\ Clause.type = "cypher_match"

\* the label of a pattern element as the compiler reads it: the default label
\* of its kind when it has none
LabelOf(node) ==
    IF node.label # NULL THEN node.label
    ELSE IF node.kind = ENT_VERTEX THEN AG_DEFAULT_LABEL_VERTEX
    ELSE AG_DEFAULT_LABEL_EDGE

\* the registered entity that first bound the name of node, or 0
FirstOccurrence(node) ==
    IF node.name = NULL THEN 0 ELSE find_variable(cpstate.entities, node.name)

\* node names a variable that an element of the same kind has bound, in this
\* clause or in a previous one
ReReference(node) ==
    /\ FirstOccurrence(node) # 0
    /\ cpstate.entities[FirstOccurrence(node)].type = node.kind

\* the re-reference states a label that the first occurrence does not have,
\* or states property constraints
Conflicting(node) ==
    /\ ReReference(node)
    /\ \/ /\ node.label # NULL
          /\ node.label # cpstate.entities[FirstOccurrence(node)].label
       \/ node.props

\* the re-reference has the label of the first occurrence and no property
\* constraints
Identical(node) ==
    /\ ReReference(node)
    /\ LabelOf(node) = cpstate.entities[FirstOccurrence(node)].label
    /\ ~node.props

\* C1: in MATCH, the step that transforms a re-reference of a bound variable
\* with a different label or with property constraints raises 'variable
\* already exists', whether the variable was bound in the same clause or in
\* a previous one, for vertices and for edges
C1_ConflictingRereferenceFails ==
    [][AtMatchElement /\ Conflicting(Path.path[elemi])
       => /\ pc' = "error"
          /\ error' = ereport(ERRCODE_FEATURE_NOT_SUPPORTED,
                              "variable already exists",
                              Path.path[elemi].name)]_vars

\* C2: in MATCH, the step that transforms an identical re-reference of a
\* bound variable succeeds, gives the element the expression of the column
\* that exists already, and adds no range-table entry and no target entry
C2_IdenticalRereferenceReuses ==
    [][AtMatchElement /\ Identical(Path.path[elemi])
       => /\ pc' = "body"
          /\ elemi' = elemi + 1
          /\ entities'[Len(entities')].expr =
                 query.targetList[findTarget(query.targetList,
                                             Path.path[elemi].name)].expr
          /\ cpstate'.p_rtable = cpstate.p_rtable
          /\ query'.targetList = query.targetList]_vars

-----------------------------------------------------------------------------
(* CREATE: bound vertices and the plan of a path (C6, C7) *)

AtCreateElement == InPath /\ Clause.type = "cypher_create"

\* the named vertices of the paths of pattern before place <<p, k>>
VerticesBefore(pattern, p, k) ==
    {pattern[i].path[j].name :
        <<i, j>> \in {q \in UNION {{<<i, j>> : j \in DOMAIN pattern[i].path} :
                                      i \in DOMAIN pattern} :
                         /\ q[1] < p \/ (q[1] = p /\ q[2] < k)
                         /\ pattern[q[1]].path[q[2]].kind = ENT_VERTEX
                         /\ pattern[q[1]].path[q[2]].name # NULL}}

\* the vertex variables bound when the element at elemi is reached: those of
\* the previous clauses and those earlier in this clause
BoundVertices ==
    UNION {VerticesBefore(chain[i].pattern, Len(chain[i].pattern) + 1, 1) :
              i \in 1..(cur - 1)}
    \cup VerticesBefore(Pattern, pathi, elemi)

\* C6: in CREATE, the step that transforms a vertex whose variable is bound,
\* by a previous clause or earlier in the clause, creates no label, opens
\* no label relation and adds no column; the plan node it appends is an
\* existing node: not flagged for insert, with no relation and no property
\* column
C6_BoundVertexNotReinserted ==
    [][AtCreateElement /\ Path.path[elemi].kind = ENT_VERTEX
         /\ Path.path[elemi].name \in BoundVertices
       => /\ labels' = labels
          /\ cpstate'.p_rtable = cpstate.p_rtable
          /\ Len(query'.targetList) = Len(query.targetList)
          /\ pc' \in {"body", "error"}
          /\ pc' = "body" =>
                LET rel == transformed_path'[Len(transformed_path')]
                IN  /\ Len(transformed_path') = Len(transformed_path) + 1
                    /\ rel.type = LABEL_KIND_VERTEX
                    /\ rel.variable_name = Path.path[elemi].name
                    /\ CYPHER_TARGET_NODE_FLAG_INSERT \notin rel.flags
                    /\ rel.relid = NULL
                    /\ rel.label_name = NULL
                    /\ rel.prop_attr_num = InvalidAttrNumber]_vars

\* a CREATE path holds the plan node of a bound vertex: one bound by the
\* previous clause, with the column of that clause it stands for
C6_Witness ==
    /\ pc = "body"
    /\ Clause.type = "cypher_create"
    /\ \E i \in DOMAIN transformed_path :
          /\ transformed_path[i].type = LABEL_KIND_VERTEX
          /\ transformed_path[i].variable_name \in BoundVertices
          /\ transformed_path[i].flags = {}
          /\ transformed_path[i].tuple_position = 1

\* the CREATE clause is finished and its pattern is (a)-[:T]->(b), a and b
\* not bound before
CreatedEdgeOfTwoNewVertices ==
    /\ pc \in {"leave", "done"}
    /\ Clause.type = "cypher_create"
    /\ Len(Pattern) = 1
    /\ Len(Pattern[1].path) = 3
    /\ Pattern[1].path[1].name = "a"
    /\ Pattern[1].path[3].name = "b"
    /\ {"a", "b"} \cap VerticesBefore(Pattern, 1, 1) = {}
    /\ \A i \in 1..(cur - 1) :
          {"a", "b"} \cap VerticesBefore(chain[i].pattern,
                                         Len(chain[i].pattern) + 1, 1) = {}
    /\ Pattern[1].path[2] =
           cypher_relationship(NULL, "T", FALSE, CYPHER_REL_DIR_RIGHT)

InsertNodes(nodes) ==
    {i \in DOMAIN nodes : CYPHER_TARGET_NODE_FLAG_INSERT \in nodes[i].flags}

\* C7 as the specification states it: the plan of CREATE (a)-[:T]->(b), a and
\* b not bound, has exactly three insert nodes, two vertex nodes followed by
\* one edge node
C7_Original ==
    CreatedEdgeOfTwoNewVertices =>
        LET nodes == query.plan.paths[1].target_nodes
        IN  /\ Len(nodes) = 3
            /\ InsertNodes(nodes) = {1, 2, 3}
            /\ nodes[1].type = LABEL_KIND_VERTEX
            /\ nodes[2].type = LABEL_KIND_VERTEX
            /\ nodes[3].type = LABEL_KIND_EDGE

\* C7: the plan of CREATE (a)-[:T]->(b), a and b not bound, has exactly three
\* insert nodes in pattern order: the vertex a, the edge, the vertex b.  Each
\* vertex node names the placeholder column of its variable; the edge node
\* names no column: it stands between the two vertices it joins
C7_ThreeInsertNodesInPatternOrder ==
    CreatedEdgeOfTwoNewVertices =>
        LET nodes == query.plan.paths[1].target_nodes
            Placeholder(i) ==
                query.targetList[findTarget(query.targetList,
                                            nodes[i].variable_name)]
        IN  /\ Len(query.plan.paths) = 1
            /\ Len(nodes) = 3
            /\ InsertNodes(nodes) = {1, 2, 3}
            /\ nodes[1].type = LABEL_KIND_VERTEX
            /\ nodes[2].type = LABEL_KIND_EDGE
            /\ nodes[3].type = LABEL_KIND_VERTEX
            /\ nodes[1].variable_name = "a"
            /\ nodes[3].variable_name = "b"
            /\ \A i \in {1, 3} :
                  /\ nodes[i].tuple_position = Placeholder(i).resno
                  /\ Placeholder(i).expr = Const("NULL")
                  /\ Placeholder(i).volatile
            /\ nodes[2].variable_name = NULL
            /\ nodes[2].tuple_position = 0
            /\ nodes[2].label_name = "T"
            /\ nodes[2].dir = CYPHER_REL_DIR_RIGHT

\* CREATE (a)-[:T]->(b) is compiled as the only clause: three plan nodes
C7_Witness ==
    /\ CreatedEdgeOfTwoNewVertices
    /\ pc = "done"
    /\ Len(chain) = 1
    /\ Len(query.plan.paths[1].target_nodes) = 3

-----------------------------------------------------------------------------
(* SET, REMOVE and DELETE (C8, C9, C10) *)

\* C8: a chain whose first clause is DELETE, SET or REMOVE is never compiled
\* beyond the first-clause test: no clause starts its own part, no query is
\* built, and the only error it ends in is 'cannot be the first clause',
\* naming the clause kind, whatever the items of the clause are
C8_UpdateCannotBeFirst ==
    chain[1].type \in {"cypher_delete", "cypher_set", "cypher_remove"}
    => /\ pc \in {"enter", "error"}
       /\ trace = <<>>
       /\ queries = <<>>
       /\ query = makeQuery
       /\ cpstate = make_cypher_parsestate
       /\ pc = "enter" /\ cur = 1 => ENABLED TransformClause
       /\ pc = "error" =>
             error = ereport(ERRCODE_FEATURE_NOT_SUPPORTED,
                             "cannot be the first clause in a Cypher query",
                             CASE chain[1].type = "cypher_delete" -> "DELETE"
                               [] chain[1].type = "cypher_set" -> "SET"
                               [] OTHER -> "REMOVE")

\* a chain that starts with a SET of two items has ended in the first-clause
\* error
C8_Witness ==
    /\ chain[1].type = "cypher_set"
    /\ Len(chain[1].items) = 2
    /\ pc = "error"
    /\ error.msg = "cannot be the first clause in a Cypher query"
    /\ error.arg = "SET"

\* the names of the columns of the predecessor of the clause being compiled
PrevColumns == ColumnNames(queries[cur - 1].targetList)

\* the own part of clause cur has run, after its predecessor was compiled
BodyRan == cur > 1 /\ Len(queries) = cur - 1 /\ pc \in {"leave", "error"}

\* C9: a DELETE clause whose predecessor outputs every variable it deletes
\* is compiled without error, and its plan holds one item per deleted
\* expression, in order: the name of the variable and the position of the
\* first column of the predecessor that has exactly this name
C9_DeleteItemsByName ==
    BodyRan /\ Clause.type = "cypher_delete"
    => /\ pc = "error" =>
             \E i \in DOMAIN Clause.items :
                 Clause.items[i].var \notin Range(PrevColumns)
       /\ pc = "leave" =>
             /\ query.plan.kind = "delete"
             /\ Len(query.plan.items) = Len(Clause.items)
             /\ \A i \in DOMAIN Clause.items :
                   LET item == query.plan.items[i]
                   IN  /\ item.var_name = Clause.items[i].var
                       /\ item.entity_position \in DOMAIN PrevColumns
                       /\ PrevColumns[item.entity_position] = item.var_name
                       /\ \A j \in 1..(item.entity_position - 1) :
                             PrevColumns[j] # item.var_name

\* DELETE b, a after MATCH (a)-[e]->(b) is compiled: b is the third column
\* and a the first
C9_Witness ==
    /\ BodyRan
    /\ pc = "leave"
    /\ Clause.type = "cypher_delete"
    /\ Len(query.plan.items) = 2
    /\ query.plan.items[1] = [var_name |-> "b", entity_position |-> 3]
    /\ query.plan.items[2] = [var_name |-> "a", entity_position |-> 1]

\* C10: the own part of a SET or REMOVE clause that lists no item, or more
\* than one, raises the unsupported-feature error of the item count, naming
\* the clause kind; the error is the one of the count and not one of an
\* item, and neither the query nor the parse state changes: no plan, no
\* column, no item looked up
C10_ItemCountRejected ==
    [][/\ pc = "body"
       /\ Clause.type \in {"cypher_set", "cypher_remove"}
       /\ Len(Clause.items) # 1
       => /\ pc' = "error"
          /\ error' = ereport(ERRCODE_FEATURE_NOT_SUPPORTED,
                 "clause does not yet support updating more than one property",
                 IF Clause.type = "cypher_set" THEN "SET" ELSE "REMOVE")
          /\ query' = query
          /\ query'.plan = NoPlan
          /\ cpstate' = cpstate]_vars

\* a SET of two items whose first names a variable that no column has, after
\* a MATCH, has ended in the error of the item count
C10_Witness ==
    /\ BodyRan
    /\ pc = "error"
    /\ Clause.type = "cypher_set"
    /\ Len(Clause.items) = 2
    /\ Clause.items[1].var \notin Range(PrevColumns)
    /\ error.msg = "clause does not yet support updating more than one property"

-----------------------------------------------------------------------------
(* REMOVE and unresolved references (C11, C12) *)

\* the left side of the item is variable.property
IsVariableProperty(item) ==
    /\ item.prop_tag = "A_Indirection"
    /\ item.arg_tag = "ColumnRef"
    /\ item.indirection = <<"String">>

\* the position of the first column of the predecessor called name, or 0
FirstPrevColumn(name) == FirstIndex(LAMBDA n : n = name, PrevColumns)

\* C11: REMOVE a.p after a clause that outputs a is compiled without error:
\* the plan is an update plan of the REMOVE clause with one item, which
\* records the variable, the position of the first column of the
\* immediately preceding clause that has exactly this name, the property
\* name and the remove flag; no column is added for a new value
C11_RemoveResolvesByName ==
    /\ BodyRan
    /\ Clause.type = "cypher_remove"
    /\ Len(Clause.items) = 1
    /\ ~Clause.items[1].is_add
    /\ IsVariableProperty(Clause.items[1])
    /\ Clause.items[1].var \in Range(PrevColumns)
    => /\ pc = "leave"
       /\ query.plan.kind = "update"
       /\ query.plan.clause_name = UPDATE_CLAUSE_REMOVE
       /\ query.plan.items =
              <<[var_name |-> Clause.items[1].var,
                 entity_position |-> FirstPrevColumn(Clause.items[1].var),
                 prop_name |-> Clause.items[1].prop,
                 prop_position |-> 0,
                 remove_item |-> TRUE]>>
       /\ Len(query.targetList) = Len(PrevColumns) + 1
       /\ ColumnNames(SubSeq(query.targetList, 1, Len(PrevColumns))) = PrevColumns

\* REMOVE b.p after MATCH (a)-[e]->(b) is compiled: b is the third column
C11_Witness ==
    /\ BodyRan
    /\ pc = "leave"
    /\ Clause.type = "cypher_remove"
    /\ PrevColumns = <<"a", "e", "b">>
    /\ query.plan.items =
           <<[var_name |-> "b", entity_position |-> 3, prop_name |-> "p",
              prop_position |-> 0, remove_item |-> TRUE]>>

\* the variables that the items of the clause being compiled name
ReferencedVariables == {Clause.items[i].var : i \in DOMAIN Clause.items}

\* the first item of the clause whose variable no column of the predecessor
\* has, or 0
FirstUnresolved ==
    FirstIndex(LAMBDA item : item.var \notin Range(PrevColumns), Clause.items)

\* the error of an unresolved reference is the first one the clause meets:
\* the item count of SET and REMOVE is right, no item before the
\* unresolved one, nor that item itself, adds a map, and the left side of
\* the item is a property path over a variable
UnresolvedMetFirst ==
    /\ FirstUnresolved # 0
    /\ Clause.type # "cypher_delete" =>
          /\ Len(Clause.items) = 1
          /\ ~Clause.items[1].is_add
          /\ Clause.items[1].prop_tag = "A_Indirection"
          /\ Clause.items[1].arg_tag = "ColumnRef"

\* C12: when an item of a SET, REMOVE or DELETE names a variable that is not
\* the name of a column of the predecessor, the clause ends in an error and
\* leaves no plan and no column behind; the error is 'undefined reference to
\* variable', naming the variable and the clause, whenever the unresolved
\* reference is the first fault the clause meets.  A clause that is compiled
\* names only columns of the predecessor
C12_UnresolvedReferenceFatal ==
    /\ BodyRan
    /\ Clause.type \in {"cypher_delete", "cypher_set", "cypher_remove"}
    => /\ FirstUnresolved # 0 =>
             /\ pc = "error"
             /\ query.plan = NoPlan
             /\ ColumnNames(query.targetList) = PrevColumns
       /\ UnresolvedMetFirst =>
             error = ereport(ERRCODE_INVALID_COLUMN_REFERENCE,
                        CASE Clause.type = "cypher_delete" ->
                                 "undefined reference to variable in DELETE clause"
                          [] Clause.type = "cypher_set" ->
                                 "undefined reference to variable in SET clause"
                          [] OTHER ->
                                 "undefined reference to variable in REMOVE clause",
                        Clause.items[FirstUnresolved].var)
       /\ pc = "leave" =>
             /\ ReferencedVariables \subseteq Range(PrevColumns)
             /\ query.plan # NoPlan

\* DELETE a, z after a clause that outputs a but not z has ended in the
\* error of the undefined reference to z
C12_Witness ==
    /\ BodyRan
    /\ pc = "error"
    /\ Clause.type = "cypher_delete"
    /\ Len(Clause.items) = 2
    /\ Clause.items[1].var = "a"
    /\ Clause.items[2].var = "z"
    /\ "a" \in Range(PrevColumns)
    /\ error.msg = "undefined reference to variable in DELETE clause"
    /\ error.arg = "z"

-----------------------------------------------------------------------------
(* MATCH: the predicates of a path (C3, C4, C5) *)

\* the paths of the MATCH clause being compiled that are finished, as indexes
\* of its pattern
FinishedPaths ==
    IF pc \in {"body", "leave"} /\ Clause.type = "cypher_match"
    THEN DOMAIN transformed ELSE {}

EdgeCount(path) == (Len(path.path) - 1) \div 2
VertexPlaces(path) == {i \in DOMAIN path.path : i % 2 = 1}
EdgePlaces(path) == {i \in DOMAIN path.path : i % 2 = 0}
AllRight(path) ==
    \A i \in EdgePlaces(path) : path.path[i].dir = CYPHER_REL_DIR_RIGHT
Joined(path, i) == INCLUDE_NODE_IN_JOIN_TREE(path, path.path[i])
Labelled(path, i) ==
    path.path[i].label # NULL /\ ~IS_DEFAULT_LABEL_VERTEX(path.path[i].label)
EndPlaces(path) == {1, Len(path.path)}

\* the number of equalities of a path of RIGHT edges: one per vertex, one
\* more for every inner vertex that is joined or labelled, one less for
\* every end vertex that is neither
EqualityCount(path) ==
    (EdgeCount(path) + 1)
    + Cardinality({i \in VertexPlaces(path) \ EndPlaces(path) :
                      Joined(path, i) \/ Labelled(path, i)})
    - Cardinality({i \in EndPlaces(path) :
                      ~Joined(path, i) /\ ~Labelled(path, i)})

PureConjunction(quals) == \A j \in DOMAIN quals : quals[j].op = AEXPR_OP

\* C3 as the specification states it, read for the paths whose vertices are
\* all in the join tree: a path of k >= 1 edges, all RIGHT, has an adjacency
\* predicate of exactly k+1 equalities and no disjunction
C3_Original ==
    \A i \in FinishedPaths :
        LET path == Pattern[i]
        IN  /\ EdgeCount(path) >= 1
            /\ AllRight(path)
            /\ \A j \in VertexPlaces(path) : Joined(path, j)
            =>
                /\ PureConjunction(transformed[i].join_quals)
                /\ Len(transformed[i].join_quals) = EdgeCount(path) + 1

\* C3: a path of k >= 1 edges, all RIGHT, has an adjacency predicate that is
\* a list of equalities, with no disjunction; there are k+1 of them, plus one
\* for every inner vertex that is in the join tree or has a label, minus one
\* for every end vertex that is neither in the join tree nor has a label
C3_RightPathEqualities ==
    \A i \in FinishedPaths :
        LET path == Pattern[i]
        IN  EdgeCount(path) >= 1 /\ AllRight(path) =>
                /\ PureConjunction(transformed[i].join_quals)
                /\ Len(transformed[i].join_quals) = EqualityCount(path)

\* a path of two RIGHT edges whose three vertices are named is finished: it
\* has four equalities
C3_Witness ==
    \E i \in FinishedPaths :
        /\ EdgeCount(Pattern[i]) = 2
        /\ AllRight(Pattern[i])
        /\ \A j \in VertexPlaces(Pattern[i]) : Pattern[i].path[j].name # NULL
        /\ Len(transformed[i].join_quals) = 4

\* the column col of a pattern element that has a relation of its own
ColumnOf(entity, col) ==
    FuncCall("graphid_to_agtype", <<ColumnRef(entity.name, col)>>)

\* C4: one undirected edge e between two vertices A and B of the join tree
\* has the adjacency predicate
\* (e.start = A.id AND e.end = B.id) OR (e.end = A.id AND e.start = B.id)
C4_UndirectedBothOrientations ==
    \A i \in FinishedPaths :
        LET path == Pattern[i]
            A == transformed[i].entities[1]
            e == transformed[i].entities[2]
            B == transformed[i].entities[3]
            Eq(l, r) == FuncCall("=", <<l, r>>)
        IN  /\ EdgeCount(path) = 1
            /\ path.path[2].dir = CYPHER_REL_DIR_NONE
            /\ Joined(path, 1) /\ Joined(path, 3)
            => transformed[i].join_quals =
                 <<FuncCall("OR",
                     <<FuncCall("AND",
                         <<Eq(ColumnOf(e, "start_id"), ColumnOf(A, "id")),
                           Eq(ColumnOf(e, "end_id"), ColumnOf(B, "id"))>>),
                       FuncCall("AND",
                         <<Eq(ColumnOf(e, "end_id"), ColumnOf(A, "id")),
                           Eq(ColumnOf(e, "start_id"), ColumnOf(B, "id"))>>)>>)>>

\* a path of one undirected edge between two vertices of the join tree is
\* finished
C4_Witness ==
    \E i \in FinishedPaths :
        /\ EdgeCount(Pattern[i]) = 1
        /\ Pattern[i].path[2].dir = CYPHER_REL_DIR_NONE
        /\ Joined(Pattern[i], 1) /\ Joined(Pattern[i], 3)
        /\ Len(transformed[i].join_quals) = 1

\* the anti-duplicate-edge predicates among the quals of a path
DuplicateEdgeQuals(quals) ==
    {j \in DOMAIN quals : quals[j].op = "_ag_enforce_edge_uniqueness"}

\* C5: a path of two or more edges has exactly one anti-duplicate-edge
\* predicate, over the id of each of its edges in pattern order; a path of
\* fewer edges has none
C5_OneDuplicateEdgeQual ==
    \A i \in FinishedPaths :
        LET path == Pattern[i]
            quals == transformed[i].qual
            ents == transformed[i].entities
            dups == DuplicateEdgeQuals(quals)
        IN  IF EdgeCount(path) >= 2
            THEN /\ Cardinality(dups) = 1
                 /\ \A j \in dups :
                       quals[j].args =
                           [n \in 1..EdgeCount(path) |->
                               ColumnOf(ents[2 * n], AG_EDGE_COLNAME_ID)]
            ELSE dups = {}

\* a path of two edges is finished, with its predicate over two edge ids
C5_Witness ==
    \E i \in FinishedPaths :
        /\ EdgeCount(Pattern[i]) = 2
        /\ \E j \in DuplicateEdgeQuals(transformed[i].qual) :
              Len(transformed[i].qual[j].args) = 2

-----------------------------------------------------------------------------
(* SKIP and LIMIT (C13) *)

\* the variables a raw expression names
RECURSIVE VariablesOf(_)
VariablesOf(node) ==
    IF node.op = "ColumnRef" THEN {node.col}
    ELSE UNION {VariablesOf(node.args[i]) : i \in DOMAIN node.args}

\* the columns of the current relation
CurrentColumns ==
    UNION {Range(cpstate.p_rtable[i].colnames) : i \in DOMAIN cpstate.p_rtable}

\* the expression names a column of the current relation, and nothing else
ReferencesColumns(node) ==
    VariablesOf(node) # {} /\ VariablesOf(node) \subseteq CurrentColumns

IsClosed(node) == VariablesOf(node) = {}

\* what a closed expression compiles to as SKIP or LIMIT: nothing when it is
\* absent, else the expression cast to a 64-bit integer
RECURSIVE ClosedExpr(_)
ClosedExpr(node) ==
    IF node.op = "A_Const" THEN Const(node.label)
    ELSE FuncExprOver(node.op, [i \in DOMAIN node.args |-> ClosedExpr(node.args[i])])

ClosedLimit(node) ==
    IF node = NoNode THEN NoExpr ELSE FuncExprOver(INT8OID, <<ClosedExpr(node)>>)

\* a RETURN or WITH is about to compile its own part
AtReturn == pc = "body" /\ Clause.type \in {"cypher_return", "cypher_with"}

\* the clause compiles when its SKIP and LIMIT are left out
CompilesWithoutLimit ==
    transform_cypher_clause_with_where(cpstate, query,
        [Clause EXCEPT !.skip = NoNode, !.limit = NoNode]).err = NoError

\* C13: a RETURN or WITH whose SKIP or LIMIT names a column of the current
\* relation ends in an error, and when the rest of the clause compiles the
\* error is 'argument must not contain variables' of the first of SKIP and
\* LIMIT that names one; an absent SKIP or LIMIT leaves no offset or count
\* in the query; closed SKIP and LIMIT expressions are compiled, each to its
\* expression cast to a 64-bit integer, whenever the rest of the clause
\* compiles
C13_LimitMustBeClosed ==
    [][AtReturn =>
          /\ ReferencesColumns(Clause.skip) \/ ReferencesColumns(Clause.limit)
             => pc' = "error"
          /\ CompilesWithoutLimit /\ ReferencesColumns(Clause.skip)
             => error' = ereport(ERRCODE_INVALID_COLUMN_REFERENCE,
                                 "argument must not contain variables", "SKIP")
          /\ /\ CompilesWithoutLimit
             /\ IsClosed(Clause.skip)
             /\ ReferencesColumns(Clause.limit)
             => error' = ereport(ERRCODE_INVALID_COLUMN_REFERENCE,
                                 "argument must not contain variables", "LIMIT")
          /\ pc' = "leave" /\ Clause.skip = NoNode => query'.limitOffset = NoExpr
          /\ pc' = "leave" /\ Clause.limit = NoNode => query'.limitCount = NoExpr
          /\ /\ CompilesWithoutLimit
             /\ IsClosed(Clause.skip)
             /\ IsClosed(Clause.limit)
             => /\ pc' = "leave"
                /\ Clause.where = NoNode =>
                      /\ query'.limitOffset = ClosedLimit(Clause.skip)
                      /\ query'.limitCount = ClosedLimit(Clause.limit)
      ]_vars

\* RETURN 1 SKIP 1 + 2 LIMIT a + 1 after a MATCH that binds a has ended in
\* the error of LIMIT
C13_Witness ==
    /\ pc = "error"
    /\ Clause.type = "cypher_return"
    /\ Clause.skip = makeSimpleA_Expr("+", A_Const("1"), A_Const("2"))
    /\ Clause.limit = makeSimpleA_Expr("+", VariableRef("a"), A_Const("1"))
    /\ Len(queries) = cur - 1
    /\ cur = 2
    /\ "a" \in Range(ColumnNames(queries[1].targetList))
    /\ error = ereport(ERRCODE_INVALID_COLUMN_REFERENCE,
                       "argument must not contain variables", "LIMIT")

\* RETURN 1 SKIP 1 LIMIT 1 + 2 is compiled
C13_WitnessClosed ==
    /\ pc = "done"
    /\ Clause.type = "cypher_return"
    /\ query.limitOffset = FuncExprOver(INT8OID, <<Const("1")>>)
    /\ query.limitCount =
           FuncExprOver(INT8OID, <<FuncExprOver("+", <<Const("1"), Const("2")>>)>>)

-----------------------------------------------------------------------------
(* The automatic GROUP BY and ORDER BY (C14) *)

\* the sort clauses of q on the target entry that group clause g is on
SortClausesOn(q, g) ==
    {s \in DOMAIN q.sortClause :
        q.sortClause[s].tleSortGroupRef = g.tleSortGroupRef}

FirstSortClauseOn(q, g) ==
    q.sortClause[CHOOSE s \in SortClausesOn(q, g) :
                     \A s2 \in SortClausesOn(q, g) : s <= s2]

\* the columns of q that hold no aggregate
PlainColumns(q) ==
    {i \in DOMAIN q.targetList :
        ~q.targetList[i].resjunk /\ ~contain_aggs_of_level(q.targetList[i].expr, 0)}

\* a RETURN or WITH without WHERE has just been compiled
ReturnCompiled == AtReturn /\ pc' = "leave" /\ Clause.where = NoNode

\* C14: in a compiled RETURN that holds an aggregate, every column without
\* an aggregate is grouped on (the first column with its expression is a
\* group key); the group clause of a key that ORDER BY
\* sorts on is a copy of the first sort clause on that key, with its
\* equality operator, its sort operator and its nulls ordering unchanged
\* (for ORDER BY n DESC: descending with nulls first); the group clause of a
\* key that ORDER BY does not sort on has the default operators, ascending
\* with nulls last
C14_GroupKeyCopiesSortClause ==
    [][ReturnCompiled =>
          /\ query'.hasAggs =>
                \A i \in PlainColumns(query') :
                    \E k \in DOMAIN query'.groupClause, j \in 1..i :
                        /\ query'.targetList[j].expr = query'.targetList[i].expr
                        /\ query'.targetList[j].ressortgroupref > 0
                        /\ query'.groupClause[k].tleSortGroupRef =
                               query'.targetList[j].ressortgroupref
          /\ \A k \in DOMAIN query'.groupClause :
                LET g == query'.groupClause[k]
                IN  IF SortClausesOn(query', g) # {}
                    THEN g = FirstSortClauseOn(query', g)
                    ELSE g = SortGroupClause(g.tleSortGroupRef, "=", "<", FALSE)
      ]_vars

\* the statement with nulls last for a key sorted descending
C14_Original ==
    [][ReturnCompiled =>
          \A k \in DOMAIN query'.groupClause :
              LET g == query'.groupClause[k]
              IN  IF SortClausesOn(query', g) # {}
                  THEN /\ g.eqop = FirstSortClauseOn(query', g).eqop
                       /\ g.sortop = FirstSortClauseOn(query', g).sortop
                       /\ g.sortop = ">" => ~g.nulls_first
                  ELSE g = SortGroupClause(g.tleSortGroupRef, "=", "<", FALSE)
      ]_vars

\* MATCH (a)-[e]->(b) RETURN a, count(*) ORDER BY a DESC is compiled: the one
\* group key is descending with nulls first
C14_Witness ==
    /\ pc = "done"
    /\ Clause.type = "cypher_return"
    /\ Clause.order_by = <<SortBy(VariableRef("a"), SORTBY_DESC, SORTBY_NULLS_DEFAULT)>>
    /\ query.hasAggs
    /\ Len(query.targetList) = 2
    /\ query.sortClause = <<SortGroupClause(1, "=", ">", TRUE)>>
    /\ query.groupClause = query.sortClause

\* RETURN a, count(*) ORDER BY count(*) DESC: the key a has the default
\* operators
C14_WitnessDefault ==
    /\ pc = "done"
    /\ query.hasAggs
    /\ Len(query.groupClause) = 1
    /\ Len(query.sortClause) = 1
    /\ \E k \in DOMAIN query.groupClause : SortClausesOn(query, query.groupClause[k]) = {}

-----------------------------------------------------------------------------
(* Named paths of CREATE (C15) *)

\* every element of a named path of CREATE is transformed
AtCreatePathEnd ==
    /\ InPattern
    /\ Clause.type = "cypher_create"
    /\ elemi > Len(Path.path)
    /\ Path.var_name # NULL

PathTooShort ==
    ereport(ERRCODE_FEATURE_NOT_SUPPORTED,
            "paths consist of alternating vertices and edges.", Path.var_name)

\* the path gets one more output column, the placeholder named after its
\* variable, and its plan entry records the position of that column
PlaceholderAdded ==
    /\ pc' # "error"
    /\ Len(query'.targetList) = Len(query.targetList) + 1
    /\ SubSeq(query'.targetList, 1, Len(query.targetList)) = query.targetList
    /\ LET te == query'.targetList[Len(query'.targetList)]
       IN  /\ te.resname = Path.var_name
           /\ te.resno = Len(query'.targetList)
           /\ ~te.resjunk
           /\ Len(transformed') = Len(transformed) + 1
           /\ transformed'[Len(transformed')].path_attr_num = te.resno
           /\ Len(transformed'[Len(transformed')].target_nodes) = Len(Path.path)

\* C15: in CREATE, a named path of fewer than 3 elements (no edge) ends in
\* the error 'paths consist of alternating vertices and edges.' and adds no
\* column; a named path of one edge or more gets one placeholder output
\* column, and the plan entry of the path records its position
C15_NamedPathNeedsOneEdge ==
    [][AtCreatePathEnd =>
          IF Len(Path.path) < 3
          THEN pc' = "error" /\ error' = PathTooShort /\ query' = query
          ELSE PlaceholderAdded
      ]_vars

\* the statement with two edges as the least length
C15_Original ==
    [][AtCreatePathEnd =>
          IF Len(Path.path) < 5
          THEN pc' = "error" /\ error' = PathTooShort /\ query' = query
          ELSE PlaceholderAdded
      ]_vars

\* CREATE p = ()-[:T]->() is compiled: the path of one edge has its
\* placeholder column
C15_Witness ==
    /\ pc = "done"
    /\ Clause.type = "cypher_create"
    /\ Clause.pattern[1].var_name = "p"
    /\ Len(Clause.pattern[1].path) = 3
    /\ Len(transformed) = 1
    /\ transformed[1].path_attr_num # InvalidAttrNumber
    /\ query.targetList[transformed[1].path_attr_num].resname = "p"

\* CREATE p = (a) has ended in the error
C15_WitnessShort ==
    /\ pc = "error"
    /\ Clause.type = "cypher_create"
    /\ Len(Clause.pattern[1].path) = 1
    /\ error = ereport(ERRCODE_FEATURE_NOT_SUPPORTED,
                       "paths consist of alternating vertices and edges.", "p")

\* CREATE p = ()-[:T]->(:N)-[f:T]->(b) is compiled
C15_WitnessLong ==
    /\ pc = "done"
    /\ Clause.type = "cypher_create"
    /\ Len(Clause.pattern[1].path) = 5
    /\ Len(transformed) = 1
    /\ transformed[1].path_attr_num # InvalidAttrNumber

-----------------------------------------------------------------------------
(* Named paths of MATCH (C16) *)

\* every element of a named path of MATCH is transformed
AtMatchPathEnd ==
    /\ InPattern
    /\ Clause.type = "cypher_match"
    /\ elemi > Len(Path.path)
    /\ Path.var_name # NULL

\* the path gets one output column named after its variable: the path
\* construction over the expression of every element, in pattern order
PathColumnAdded ==
    /\ pc' # "error"
    /\ Len(entities) = Len(Path.path)
    /\ \A i \in DOMAIN entities :
          /\ entities[i].type = Path.path[i].kind
          /\ Path.path[i].name # NULL => entities[i].name = Path.path[i].name
          /\ entities[i].expr # NoExpr
    /\ Len(query'.targetList) = Len(query.targetList) + 1
    /\ SubSeq(query'.targetList, 1, Len(query.targetList)) = query.targetList
    /\ LET te == query'.targetList[Len(query'.targetList)]
       IN  /\ te.resname = Path.var_name
           /\ ~te.resjunk
           /\ IsA(te.expr, "_agtype_build_path")
           /\ te.expr.args = [i \in DOMAIN entities |-> entities[i].expr]

\* C16: in MATCH, a named path of fewer than 3 elements ends in the error
\* 'paths consist of alternating vertices and edges.' and adds no column; a
\* named path of 3 elements or more gets one column, the path construction
\* over the resolved expression of every element in pattern order
C16_NamedPathNeedsThreeElements ==
    [][AtMatchPathEnd =>
          IF Len(Path.path) < 3
          THEN pc' = "error" /\ error' = PathTooShort /\ query' = query
          ELSE PathColumnAdded
      ]_vars

\* the statement with 5 elements as the least length
C16_Original ==
    [][AtMatchPathEnd =>
          IF Len(Path.path) < 5
          THEN pc' = "error" /\ error' = PathTooShort /\ query' = query
          ELSE PathColumnAdded
      ]_vars

\* MATCH p = (a)-[]->(b) is compiled: the path of 3 elements has its column
\* over 3 expressions
C16_Witness ==
    /\ pc = "done"
    /\ Len(chain) = 1
    /\ Clause.type = "cypher_match"
    /\ Clause.pattern[1].var_name = "p"
    /\ Len(Clause.pattern[1].path) = 3
    /\ \E i \in DOMAIN query.targetList :
          /\ query.targetList[i].resname = "p"
          /\ IsA(query.targetList[i].expr, "_agtype_build_path")
          /\ Len(query.targetList[i].expr.args) = 3

\* MATCH p = (a) has ended in the error
C16_WitnessShort ==
    /\ pc = "error"
    /\ Clause.type = "cypher_match"
    /\ Clause.pattern[1].var_name = "p"
    /\ Len(Clause.pattern[1].path) = 1
    /\ error = ereport(ERRCODE_FEATURE_NOT_SUPPORTED,
                       "paths consist of alternating vertices and edges.", "p")

-----------------------------------------------------------------------------
(* Edges of CREATE (C17) *)

\* an edge of a CREATE path is about to be transformed
AtCreateEdge ==
    /\ InPath
    /\ Clause.type = "cypher_create"
    /\ Path.path[elemi].kind = ENT_EDGE

CreateEdgeError(msg) == ereport(ERRCODE_FEATURE_NOT_SUPPORTED, msg, NULL)

\* C17: an edge of CREATE without a direction or without a label ends in an
\* error ('only directed relationships are allowed in CREATE', or
\* 'relationships must be specify a label in CREATE.' for a directed edge,
\* when the name of the edge is not taken); an edge with a direction, a
\* label and a name that is not taken is accepted; an accepted edge has a
\* direction and a label and its plan node is an insert of an edge with
\* that label and direction
C17_CreateEdgeDirectedAndLabelled ==
    [][AtCreateEdge =>
          LET edge == Path.path[elemi]
              taken == variable_exists(cpstate, edge.name)
              rel == transformed_path'[Len(transformed_path')]
          IN  /\ edge.dir = CYPHER_REL_DIR_NONE \/ edge.label = NULL
                 => pc' = "error"
              /\ ~taken /\ edge.dir = CYPHER_REL_DIR_NONE
                 => error' = CreateEdgeError(
                        "only directed relationships are allowed in CREATE")
              /\ ~taken /\ edge.dir # CYPHER_REL_DIR_NONE /\ edge.label = NULL
                 => error' = CreateEdgeError(
                        "relationships must be specify a label in CREATE.")
              /\ ~taken /\ edge.dir # CYPHER_REL_DIR_NONE /\ edge.label # NULL
                 => pc' # "error"
              /\ pc' # "error"
                 => /\ edge.dir \in {CYPHER_REL_DIR_LEFT, CYPHER_REL_DIR_RIGHT}
                    /\ edge.label # NULL
                    /\ Len(transformed_path') = Len(transformed_path) + 1
                    /\ CYPHER_TARGET_NODE_FLAG_INSERT \in rel.flags
                    /\ rel.type = LABEL_KIND_EDGE
                    /\ rel.label_name = edge.label
                    /\ rel.dir = edge.dir
      ]_vars

\* CREATE ()-[:T]-() has ended in the error of the direction
C17_Witness ==
    /\ pc = "error"
    /\ Clause.type = "cypher_create"
    /\ elemi <= Len(Path.path)
    /\ elemi = 2
    /\ Path.path[elemi].dir = CYPHER_REL_DIR_NONE
    /\ Path.path[elemi].label = "T"
    /\ error = CreateEdgeError("only directed relationships are allowed in CREATE")

\* CREATE ()-[]->() has ended in the error of the label
C17_WitnessLabel ==
    /\ pc = "error"
    /\ Clause.type = "cypher_create"
    /\ elemi <= Len(Path.path)
    /\ elemi = 2
    /\ Path.path[elemi].dir = CYPHER_REL_DIR_RIGHT
    /\ Path.path[elemi].label = NULL
    /\ error = CreateEdgeError("relationships must be specify a label in CREATE.")

\* CREATE ()<-[:T]-(): the edge is an insert
C17_WitnessAccepted ==
    /\ pc = "body"
    /\ Clause.type = "cypher_create"
    /\ elemi = 3
    /\ Len(transformed_path) = 2
    /\ transformed_path[2].dir = CYPHER_REL_DIR_LEFT
    /\ CYPHER_TARGET_NODE_FLAG_INSERT \in transformed_path[2].flags

-----------------------------------------------------------------------------
(* References to bound variables in CREATE (C18) *)

\* a vertex of a CREATE path is about to be transformed
AtCreateNode ==
    /\ InPath
    /\ Clause.type = "cypher_create"
    /\ Path.path[elemi].kind = ENT_VERTEX

\* the entries of the registry under the name
BoundAs(name) ==
    {i \in DOMAIN cpstate.entities : name # NULL /\ cpstate.entities[i].name = name}

FirstBoundAs(name) ==
    cpstate.entities[CHOOSE i \in BoundAs(name) : \A j \in BoundAs(name) : i <= j]

\* C18: in CREATE, a vertex whose name is bound to a vertex and that has a
\* property map or a label ends in a conflict error ('previously declared
\* nodes in a create clause cannot have properties', else 'previously
\* declared variables cannot have a label'); a vertex whose name is bound to
\* an edge ends in 'variable already exists'; a bare vertex whose name is
\* bound to a vertex is accepted with a plan node that is no insert, and
\* every accepted plan node that is no insert comes from such a bare
\* reference
C18_OnlyBareReferenceIsExisting ==
    [][AtCreateNode =>
          LET node == Path.path[elemi]
              bound == BoundAs(node.name) # {}
              vertex == bound /\ FirstBoundAs(node.name).type = ENT_VERTEX
              bare == ~node.props /\ node.label = NULL
              rel == transformed_path'[Len(transformed_path')]
              Conflict(msg) == ereport(ERRCODE_FEATURE_NOT_SUPPORTED, msg, NULL)
          IN  /\ vertex /\ node.props
                 => /\ pc' = "error"
                    /\ error' = Conflict(
                         "previously declared nodes in a create clause cannot have properties")
              /\ vertex /\ ~node.props /\ node.label # NULL
                 => /\ pc' = "error"
                    /\ error' = Conflict(
                         "previously declared variables cannot have a label")
              /\ bound /\ ~vertex
                 => /\ pc' = "error"
                    /\ error' = ereport(ERRCODE_FEATURE_NOT_SUPPORTED,
                                        "variable already exists", node.name)
              /\ vertex /\ bare
                 => /\ pc' # "error"
                    /\ Len(transformed_path') = Len(transformed_path) + 1
                    /\ CYPHER_TARGET_NODE_FLAG_INSERT \notin rel.flags
                    /\ rel.type = LABEL_KIND_VERTEX
                    /\ rel.variable_name = node.name
              /\ pc' # "error" /\ CYPHER_TARGET_NODE_FLAG_INSERT \notin rel.flags
                 => vertex /\ bare
      ]_vars

\* MATCH (a) CREATE (a:N) has ended in the error of the label
C18_Witness ==
    /\ pc = "error"
    /\ Clause.type = "cypher_create"
    /\ elemi <= Len(Path.path)
    /\ Len(chain) = 2
    /\ elemi = 1
    /\ Path.path[elemi] = cypher_node("a", "N", FALSE)
    /\ error = ereport(ERRCODE_FEATURE_NOT_SUPPORTED,
                       "previously declared variables cannot have a label", NULL)

\* MATCH (a)-[e]->(b) CREATE (e) has ended in 'variable already exists'
C18_WitnessEdge ==
    /\ pc = "error"
    /\ Clause.type = "cypher_create"
    /\ elemi <= Len(Path.path)
    /\ Path.path[elemi].kind = ENT_VERTEX
    /\ Path.path[elemi].name = "e"
    /\ error = ereport(ERRCODE_FEATURE_NOT_SUPPORTED, "variable already exists", "e")

\* MATCH (a) CREATE (a {..}) has ended in the error of the property map
C18_WitnessProps ==
    /\ pc = "error"
    /\ Clause.type = "cypher_create"
    /\ elemi <= Len(Path.path)
    /\ Path.path[elemi] = cypher_node("a", NULL, TRUE)
    /\ error = ereport(ERRCODE_FEATURE_NOT_SUPPORTED,
           "previously declared nodes in a create clause cannot have properties",
           NULL)

\* MATCH (a) CREATE (a)-[:T]->(): the vertex a is no insert
C18_WitnessBare ==
    /\ pc = "body"
    /\ Clause.type = "cypher_create"
    /\ Len(chain) = 2
    /\ elemi = 2
    /\ Len(transformed_path) = 1
    /\ transformed_path[1].variable_name = "a"
    /\ CYPHER_TARGET_NODE_FLAG_INSERT \notin transformed_path[1].flags

-----------------------------------------------------------------------------
(* All or nothing (C19) *)

\* the clauses 1..n, in this order
FirstClauses(n) == [i \in 1..n |-> i]

\* C19: an error and the state "error" come together; no step is taken
\* after an error, so the error raised first is the only one and the state
\* "done" is never reached after it; the step that raises an error finishes
\* no clause and starts none; the compilation is done only without an error,
\* with every clause of the chain started once, in chain order, and compiled
\* to its query
C19_AllOrNothing ==
    /\ []((pc = "error") <=> (error # NoError))
    /\ [](pc = "error" => /\ Len(queries) < Len(chain)
                          /\ Len(queries) = cur - 1
                             \/ (Len(queries) = 0 /\ trace = <<>>)
                          /\ trace = FirstClauses(Len(trace))
                          /\ Len(trace) \in {0, cur})
    /\ [](pc = "done" => /\ error = NoError
                         /\ Len(queries) = Len(chain)
                         /\ queries[Len(chain)] = query
                         /\ trace = FirstClauses(Len(chain)))
    /\ [][/\ pc # "error"
          /\ pc # "done"
          /\ pc' = "error" => queries' = queries /\ trace' = trace
       ]_vars

\* MATCH (a) SET z.p = .. DELETE a has ended in the error of SET: the MATCH
\* is compiled, the DELETE was never started
C19_Witness ==
    /\ pc = "error"
    /\ Len(chain) = 3
    /\ cur = 2
    /\ Clause.type = "cypher_set"
    /\ chain[3].type = "cypher_delete"
    /\ trace = <<1, 2>>
    /\ Len(queries) = 1
    /\ error.msg = "undefined reference to variable in SET clause"

-----------------------------------------------------------------------------
(* The entity registry (C20) *)

\* the entry with its flag cleared
Advanced(entity) == [entity EXCEPT !.declared_in_current_clause = FALSE]

\* C20: in every step, the entries of the registry stay where they are and
\* as they are, but for a flag that is cleared: none is removed and no
\* cleared flag is set again; every entry the step adds has the flag
\* declared-in-current-clause set; and the step that finishes a clause and
\* hands it to its successor adds no entry and leaves every flag cleared
C20_RegistryLifecycle ==
    [][LET old == cpstate.entities
           new == cpstate'.entities
       IN  /\ Len(new) >= Len(old)
           /\ \A i \in DOMAIN old :
                 \/ new[i] = old[i]
                 \/ old[i].declared_in_current_clause /\ new[i] = Advanced(old[i])
           /\ \A i \in DOMAIN new \ DOMAIN old : new[i].declared_in_current_clause
           /\ pc = "leave" /\ pc' = "body"
              => /\ Len(new) = Len(old)
                 /\ \A i \in DOMAIN new : ~new[i].declared_in_current_clause
           /\ (\E i \in DOMAIN old :
                  old[i].declared_in_current_clause
                  /\ ~new[i].declared_in_current_clause)
              => pc = "leave"
      ]_vars

\* MATCH (a)-[e]->(b) CREATE (a)-[..]->..: the registry holds a, e and b
\* with the flag cleared and the vertex of CREATE with the flag set
C20_Witness ==
    /\ pc = "body"
    /\ cur = 2
    /\ Clause.type = "cypher_create"
    /\ Len(cpstate.entities) = 4
    /\ \A i \in 1..3 : ~cpstate.entities[i].declared_in_current_clause
    /\ <<cpstate.entities[1].name, cpstate.entities[2].name,
         cpstate.entities[3].name>> = <<"a", "e", "b">>
    /\ cpstate.entities[4].declared_in_current_clause

-----------------------------------------------------------------------------
(* The flags of the plans (C21) *)

\* the queries of the clauses compiled so far, by clause: those handed on,
\* and the one whose own part has just been compiled
FinishedQueries ==
    IF pc = "leave" THEN Append(queries, query) ELSE queries

IsUpdatingPlan(q) == q.plan.kind \in {"create", "update", "delete"}

\* C21: the plan of a CREATE, SET, REMOVE or DELETE clause carries the
\* terminal flag exactly when no clause follows it in the chain, and the plan
\* of a CREATE clause carries the has-predecessor flag exactly when a clause
\* precedes it; a SET, REMOVE or DELETE plan never carries that flag.
C21_PlanFlags ==
    \A i \in DOMAIN FinishedQueries :
        LET plan == FinishedQueries[i].plan
        IN  /\ (chain[i].type \in {"cypher_create", "cypher_set", "cypher_remove",
                                   "cypher_delete"})
                    <=> IsUpdatingPlan(FinishedQueries[i])
            /\ IsUpdatingPlan(FinishedQueries[i]) =>
                   /\ (CYPHER_CLAUSE_FLAG_TERMINAL \in plan.flags) <=> ~HasNext(i)
                   /\ (CYPHER_CLAUSE_FLAG_PREVIOUS_CLAUSE \in plan.flags)
                          <=> (plan.kind = "create" /\ HasPrev(i))

\* MATCH (a) CREATE (a)-[:T]->(b) SET a.p = ... is compiled: the CREATE plan
\* has a predecessor and is not terminal, the SET plan is terminal
C21_Witness ==
    /\ pc = "done"
    /\ Len(queries) = 3
    /\ queries[2].plan.kind = "create"
    /\ queries[2].plan.flags = {CYPHER_CLAUSE_FLAG_PREVIOUS_CLAUSE}
    /\ queries[3].plan.kind = "update"
    /\ queries[3].plan.flags = {CYPHER_CLAUSE_FLAG_TERMINAL}

\* a CREATE that is the first clause and has a successor: no flag at all
C21_WitnessFirst ==
    /\ pc = "done"
    /\ queries[1].plan.kind = "create"
    /\ queries[1].plan.flags = {}
    /\ queries[Len(queries)].plan.kind = "delete"
    /\ queries[Len(queries)].plan.flags = {CYPHER_CLAUSE_FLAG_TERMINAL}

-----------------------------------------------------------------------------
(* Which elements of MATCH are in the join tree (C22) *)

\* entity is what the element elem of a path called var_name was made into:
\* an edge is in the join tree; a vertex is in it exactly when the path is
\* named, or the vertex is named, or it has a property map; being in the
\* join tree and having an expression are the same thing
InJoinTreeByRule(var_name, elem, entity) ==
    /\ entity.in_join_tree <=> (entity.expr # NoExpr)
    /\ entity.type = ENT_EDGE => entity.in_join_tree
    /\ entity.type = ENT_VERTEX =>
           (entity.in_join_tree
                <=> (var_name # NULL \/ elem.name # NULL \/ elem.props))

\* C22: in MATCH, a vertex is in the join tree (has an expression) if and
\* only if its path is named, or it has a variable name of its own, or it has
\* property constraints; every edge is in the join tree. Holds of the
\* elements of the path being transformed and of every finished path.
C22_JoinTreeInclusion ==
    Clause.type = "cypher_match" =>
        /\ InPattern =>
               \A i \in DOMAIN entities :
                   /\ entities[i].type = (IF i % 2 = 1 THEN ENT_VERTEX ELSE ENT_EDGE)
                   /\ InJoinTreeByRule(Path.var_name, Path.path[i], entities[i])
        /\ \A k \in DOMAIN transformed :
               \A i \in DOMAIN transformed[k].entities :
                   InJoinTreeByRule(Pattern[k].var_name, Pattern[k].path[i],
                                    transformed[k].entities[i])

\* an unnamed path ()-[]-({..}) is transformed: the first vertex is left
\* out, the edge is in, the last vertex is in for its property map alone
C22_Witness ==
    /\ Clause.type = "cypher_match"
    /\ \E k \in DOMAIN transformed :
          /\ Pattern[k].var_name = NULL
          /\ Len(transformed[k].entities) >= 3
          /\ ~transformed[k].entities[1].in_join_tree
          /\ transformed[k].entities[2].in_join_tree
          /\ transformed[k].entities[3].in_join_tree
          /\ Pattern[k].path[3].name = NULL
          /\ Pattern[k].path[3].props

\* a named path p = ()-[]-(): both bare vertices are in for the path's name
C22_WitnessNamedPath ==
    /\ Clause.type = "cypher_match"
    /\ \E k \in DOMAIN transformed :
          /\ Pattern[k].var_name # NULL
          /\ Len(transformed[k].entities) >= 3
          /\ Pattern[k].path[1] = cypher_node(NULL, NULL, FALSE)
          /\ transformed[k].entities[1].in_join_tree

-----------------------------------------------------------------------------
(* The label filters of the vertices left out of the join tree (C23) *)

\* the vertices of a path that are left out of the join tree and have a
\* label of their own
FilteredPlaces(path) ==
    {i \in VertexPlaces(path) : ~Joined(path, i) /\ Labelled(path, i)}

IsLabelFilter(qual) ==
    qual.op = AEXPR_OP /\ Len(qual.args) = 2 /\ qual.args[1].op = "_extract_label_id"

\* the predicate of a path with every undirected edge read in its first
\* (which = 1) or its second (which = 2) orientation: a list of conjuncts
RECURSIVE UnderOrientation(_, _)
UnderOrientation(quals, which) ==
    IF quals = <<>> THEN <<>>
    ELSE (IF Head(quals).op = OR_EXPR
          THEN Head(quals).args[which].args ELSE <<Head(quals)>>)
         \o UnderOrientation(Tail(quals), which)

\* the edge that has to carry the filter of the vertex at place i: the
\* following one, or the preceding one for the last vertex of the path
FilterEdgePlace(path, i) == IF i < Len(path.path) THEN i + 1 ELSE i - 1

\* the endpoint of that edge the vertex sits at, under the orientation
FilterEndpoint(path, i, which) ==
    LET dir == path.path[FilterEdgePlace(path, i)].dir
        before == i < Len(path.path)
        forward == dir = CYPHER_REL_DIR_RIGHT
                   \/ (dir = CYPHER_REL_DIR_NONE /\ which = 1)
    IN  IF before = forward
        THEN AG_EDGE_COLNAME_START_ID ELSE AG_EDGE_COLNAME_END_ID

\* label_id(edge.endpoint) = label
LabelFilterOf(ents, path, i, which) ==
    FuncCall(AEXPR_OP,
        <<FuncCall("_extract_label_id",
              <<FuncCall("agtype_to_graphid",
                    <<ColumnOf(ents[FilterEdgePlace(path, i)],
                               FilterEndpoint(path, i, which))>>)>>),
          A_Const(path.path[i].label)>>)

Occurrences(s, x) == Cardinality({j \in DOMAIN s : s[j] = x})

\* the predicate of finished path k has, under each orientation, the filter
\* of each left-out labelled vertex once, and no other label filter
FilteredOnce(k) ==
    \A which \in 1..2 :
        LET path == Pattern[k]
            conjuncts == UnderOrientation(transformed[k].join_quals, which)
        IN  /\ \A i \in FilteredPlaces(path) :
                   /\ EdgeCount(path) >= 1
                   /\ Occurrences(conjuncts,
                          LabelFilterOf(transformed[k].entities, path, i, which)) = 1
            /\ Cardinality({j \in DOMAIN conjuncts : IsLabelFilter(conjuncts[j])})
                   = Cardinality(FilteredPlaces(path))

\* C23: for every MATCH path, each vertex left out of the join tree that has
\* a label of its own has its label filter in the path predicate exactly once
\* (once per orientation of an undirected edge): on its one adjoining edge
\* when it is an end of the path, on the following edge when it is in the
\* middle; no path shape drops the filter.
C23_LabelFilterOnce ==
    \A k \in FinishedPaths : FilteredOnce(k)

\* the same for the paths of at least one edge
C23_LabelFilterOnceOnEdges ==
    \A k \in FinishedPaths : EdgeCount(Pattern[k]) >= 1 => FilteredOnce(k)

\* the path (:L) of one vertex is finished and its predicate is empty
C23_WitnessDropped ==
    \E k \in FinishedPaths :
        /\ Pattern[k].path = <<cypher_node(NULL, "L", FALSE)>>
        /\ transformed[k].qual = <<>>
        /\ ~transformed[k].entities[1].in_join_tree

\* a path (:L)-[]-(:L)->(:L) style: three left-out labelled vertices over
\* two edges, the first of them undirected
C23_WitnessOnEdges ==
    \E k \in FinishedPaths :
        /\ EdgeCount(Pattern[k]) = 2
        /\ FilteredPlaces(Pattern[k]) = {1, 3, 5}
        /\ Pattern[k].path[2].dir = CYPHER_REL_DIR_NONE
        /\ Pattern[k].path[4].dir = CYPHER_REL_DIR_RIGHT

-----------------------------------------------------------------------------
(* The form of a REMOVE item (C24) *)

RemoveFormatError ==
    ereport(ERRCODE_FEATURE_NOT_SUPPORTED,
            "REMOVE clause must be in the format: REMOVE variable.property_name",
            NULL)

\* the own part of a REMOVE clause of one item has run
RemoveRan == BodyRan /\ Clause.type = "cypher_remove" /\ Len(Clause.items) = 1

\* the error of the item, by its form, when its variable (if it has one) is
\* a column of the predecessor
RemoveErrorOf(item) ==
    IF item.is_add
    THEN ereport(ERRCODE_FEATURE_NOT_SUPPORTED,
                 "REMOVE clause does not support adding propereties from maps",
                 NULL)
    ELSE IF item.prop_tag # "A_Indirection" \/ item.arg_tag # "ColumnRef"
            \/ Len(item.indirection) # 1
    THEN RemoveFormatError
    ELSE ereport(ERRCODE_INVALID_COLUMN_REFERENCE,
                 "REMOVE clause expects a property name", NULL)

\* C24: REMOVE accepts only the form variable.property. A bare variable, a
\* base that is not a variable, more than one level of indirection, a step
\* that is not a property name, or the map-add form ends in an error, and
\* the clause leaves no plan and no column behind; a REMOVE that is compiled
\* has an item of the form variable.property.
C24_RemoveOnlyVariableProperty ==
    RemoveRan =>
        /\ Clause.items[1].is_add \/ ~IsVariableProperty(Clause.items[1]) =>
               /\ pc = "error"
               /\ query.plan = NoPlan
               /\ ColumnNames(query.targetList) = PrevColumns
               /\ \/ error = RemoveErrorOf(Clause.items[1])
                  \/ /\ ~Clause.items[1].is_add
                     /\ Clause.items[1].prop_tag = "A_Indirection"
                     /\ Clause.items[1].arg_tag = "ColumnRef"
                     /\ Clause.items[1].var \notin Range(PrevColumns)
                     /\ error.msg = "undefined reference to variable in REMOVE clause"
        /\ pc = "leave" =>
               /\ ~Clause.items[1].is_add
               /\ IsVariableProperty(Clause.items[1])
               /\ Len(query.plan.items) = 1

\* REMOVE a after a clause that outputs a has ended in the format error
C24_Witness ==
    /\ RemoveRan
    /\ Clause.items[1] = bare_variable_item("a")
    /\ "a" \in Range(PrevColumns)
    /\ pc = "error"
    /\ error = RemoveFormatError

\* REMOVE f(a).p
C24_WitnessBase ==
    /\ RemoveRan
    /\ Clause.items[1].arg_tag = "FuncCall"
    /\ pc = "error"
    /\ error = RemoveFormatError

\* REMOVE a.p.q after a clause that outputs a
C24_WitnessLevels ==
    /\ RemoveRan
    /\ Len(Clause.items[1].indirection) = 2
    /\ "a" \in Range(PrevColumns)
    /\ pc = "error"
    /\ error = RemoveFormatError

\* REMOVE a[0] after a clause that outputs a
C24_WitnessStep ==
    /\ RemoveRan
    /\ Clause.items[1].indirection = <<"A_Indices">>
    /\ Clause.items[1].var = "a"
    /\ "a" \in Range(PrevColumns)
    /\ pc = "error"
    /\ error.msg = "REMOVE clause expects a property name"

\* REMOVE a += {..}
C24_WitnessMapAdd ==
    /\ RemoveRan
    /\ Clause.items[1].is_add
    /\ pc = "error"
    /\ error.msg = "REMOVE clause does not support adding propereties from maps"

\* REMOVE a.p after a clause that outputs a is compiled
C24_WitnessAccepted ==
    /\ RemoveRan
    /\ IsVariableProperty(Clause.items[1])
    /\ pc = "leave"
    /\ query.plan.items[1].remove_item

-----------------------------------------------------------------------------
(* What the predicate of a path means over a graph (C25) *)

\* the graphs the predicates are read over: two vertices, each with the
\* label L or none of its own, and two edges between any of them
VertexIds == {"A", "B"}
EdgeIds == {"e1", "e2"}
Graphs ==
    [vlabel : [VertexIds -> {AG_DEFAULT_LABEL_VERTEX, "L"}],
     start_id : [EdgeIds -> VertexIds],
     end_id : [EdgeIds -> VertexIds]]

\* the places of a path that have a relation in the join tree
JoinedPlaces(path) ==
    EdgePlaces(path) \cup {i \in VertexPlaces(path) : Joined(path, i)}

\* a vertex of the graph that the vertex at place i of the path may be
HasLabelOf(graph, path, i, v) ==
    Labelled(path, i) => graph.vlabel[v] = path.path[i].label

\* the rows the relations of the join tree may be at: an edge of the graph
\* for every edge of the path, a vertex of the label for every joined vertex
Rows(graph, path) ==
    {row \in [JoinedPlaces(path) -> VertexIds \cup EdgeIds] :
        /\ \A i \in EdgePlaces(path) : row[i] \in EdgeIds
        /\ \A i \in JoinedPlaces(path) \ EdgePlaces(path) :
               row[i] \in VertexIds /\ HasLabelOf(graph, path, i, row[i])}

\* the column col of the relation called rel
ColumnValue(graph, ents, row, rel, col) ==
    LET i == CHOOSE j \in DOMAIN ents : ents[j].name = rel
    IN  CASE col = AG_EDGE_COLNAME_START_ID -> graph.start_id[row[i]]
          [] col = AG_EDGE_COLNAME_END_ID -> graph.end_id[row[i]]
          [] OTHER -> row[i]

\* the value of an operand of a qual
RECURSIVE ValueOf(_, _, _, _)
ValueOf(graph, ents, row, q) ==
    CASE q.op = "graphid_to_agtype" ->
             ColumnValue(graph, ents, row, q.args[1].rel, q.args[1].col)
      [] q.op = "agtype_to_graphid" -> ValueOf(graph, ents, row, q.args[1])
      [] q.op = "_extract_label_id" ->
             graph.vlabel[ValueOf(graph, ents, row, q.args[1])]
      [] q.op = "A_Const" -> q.label
      [] OTHER -> "no value"

\* Is the qual true at the rows?
RECURSIVE Satisfies(_, _, _, _)
Satisfies(graph, ents, row, q) ==
    CASE q.op = AEXPR_OP ->
             ValueOf(graph, ents, row, q.args[1])
                 = ValueOf(graph, ents, row, q.args[2])
      [] q.op = AEXPR_IN ->
             \E j \in DOMAIN q.args[2].args :
                 ValueOf(graph, ents, row, q.args[1])
                     = ValueOf(graph, ents, row, q.args[2].args[j])
      [] q.op = AND_EXPR ->
             \A j \in DOMAIN q.args : Satisfies(graph, ents, row, q.args[j])
      [] q.op = OR_EXPR ->
             \E j \in DOMAIN q.args : Satisfies(graph, ents, row, q.args[j])
      [] q.op = "_ag_enforce_edge_uniqueness" ->
             \A i, j \in DOMAIN q.args :
                 i # j => ValueOf(graph, ents, row, q.args[i])
                             # ValueOf(graph, ents, row, q.args[j])
      [] OTHER -> FALSE

\* the edge connects the vertex before it to the vertex after it, in its
\* direction, or in either for an undirected edge
Connects(graph, dir, edge, before, after) ==
    LET forward == graph.start_id[edge] = before /\ graph.end_id[edge] = after
        backward == graph.start_id[edge] = after /\ graph.end_id[edge] = before
    IN  CASE dir = CYPHER_REL_DIR_RIGHT -> forward
          [] dir = CYPHER_REL_DIR_LEFT -> backward
          [] OTHER -> forward \/ backward

\* the rows are a walk of the graph along the path: there are vertices for
\* the places that are left out, of the labels asked for, such that every
\* edge connects its two neighbours and no edge is used twice
IsWalk(graph, path, row) ==
    /\ \A i, j \in EdgePlaces(path) : i # j => row[i] # row[j]
    /\ \E w \in [VertexPlaces(path) -> VertexIds] :
          /\ \A i \in VertexPlaces(path) :
                 /\ HasLabelOf(graph, path, i, w[i])
                 /\ Joined(path, i) => w[i] = row[i]
          /\ \A i \in EdgePlaces(path) :
                 Connects(graph, path.path[i].dir, row[i], w[i - 1], w[i + 1])

InteriorLeftOut(path) ==
    \A i \in VertexPlaces(path) \ EndPlaces(path) : ~Joined(path, i)

\* the predicate of finished path k is true exactly at the walks
AdjacencyPreserved(k) ==
    \A graph \in Graphs :
        \A row \in Rows(graph, Pattern[k]) :
            (\A j \in DOMAIN transformed[k].qual :
                 Satisfies(graph, transformed[k].entities, row,
                           transformed[k].qual[j]))
              <=> IsWalk(graph, Pattern[k], row)

\* C25: for any MATCH path whose interior vertices are left out of the join
\* tree, and any mix of edge directions, the path predicate is true of an
\* assignment of graph edges and joined vertices exactly when there are
\* vertices for the left-out places such that every edge connects its two
\* neighbours in its direction (either way when undirected) and no edge is
\* used twice.
C25_AdjacencyPreserved ==
    \A k \in FinishedPaths :
        EdgeCount(Pattern[k]) >= 1 /\ InteriorLeftOut(Pattern[k])
            => AdjacencyPreserved(k)

\* a left-out vertex between two undirected edges
BetweenUndirected(path) ==
    {i \in VertexPlaces(path) \ EndPlaces(path) :
        /\ ~Joined(path, i)
        /\ path.path[i - 1].dir = CYPHER_REL_DIR_NONE
        /\ path.path[i + 1].dir = CYPHER_REL_DIR_NONE}

\* the same for the paths that have no left-out vertex between two
\* undirected edges
C25_AdjacencyPreservedBesideDirected ==
    \A k \in FinishedPaths :
        /\ EdgeCount(Pattern[k]) >= 1
        /\ InteriorLeftOut(Pattern[k])
        /\ BetweenUndirected(Pattern[k]) = {}
        => AdjacencyPreserved(k)

\* the path (a)-[]-()-[]-(c) is finished: the graph with two parallel edges
\* e1, e2 from A to B satisfies its predicate at a = A, c = B, though no
\* vertex lies between e1 and e2 on a walk from A to B
C25_WitnessParallelEdges ==
    \E k \in FinishedPaths :
        LET graph == [vlabel |-> [v \in VertexIds |-> AG_DEFAULT_LABEL_VERTEX],
                      start_id |-> [e \in EdgeIds |-> "A"],
                      end_id |-> [e \in EdgeIds |-> "B"]]
            row == (1 :> "A") @@ (2 :> "e1") @@ (4 :> "e2") @@ (5 :> "B")
        IN  /\ EdgeCount(Pattern[k]) = 2
            /\ BetweenUndirected(Pattern[k]) = {3}
            /\ Joined(Pattern[k], 1) /\ Joined(Pattern[k], 5)
            /\ \A j \in DOMAIN transformed[k].qual :
                   Satisfies(graph, transformed[k].entities, row,
                             transformed[k].qual[j])
            /\ ~IsWalk(graph, Pattern[k], row)

-----------------------------------------------------------------------------
(* The tuple position of an existing vertex of CREATE (C26) *)

\* the plan nodes of the CREATE clause being compiled, as far as they are
\* built
CreatedNodes ==
    IF Clause.type = "cypher_create" /\ pc \in {"body", "leave"}
    THEN Range(transformed_path)
         \cup UNION {Range(transformed[k].target_nodes) : k \in DOMAIN transformed}
    ELSE {}

IsExistingNode(rel) ==
    /\ rel.type = LABEL_KIND_VERTEX
    /\ CYPHER_TARGET_NODE_FLAG_INSERT \notin rel.flags

\* C26: every existing-vertex plan node of CREATE records a tuple position
\* that is the number of a column of the CREATE clause's target list named
\* after the variable, never -1, whatever the clauses before the CREATE are:
\* also when the variable was bound in an earlier clause and a WITH or
\* RETURN in between does not hand it on.
C26_ExistingNodePosition ==
    \A rel \in CreatedNodes :
        IsExistingNode(rel) =>
            /\ rel.tuple_position # -1
            /\ \E i \in DOMAIN query.targetList :
                   /\ query.targetList[i].resno = rel.tuple_position
                   /\ query.targetList[i].resname = rel.variable_name

\* the same for the existing vertices whose variable is bound earlier in
\* the CREATE clause itself or is a column of its predecessor
C26_ExistingNodePositionWhenHandedOn ==
    \A rel \in CreatedNodes :
        /\ IsExistingNode(rel)
        /\ \/ EXISTING_VARAIBLE_DECLARED_SAME_CLAUSE \in rel.flags
           \/ HasPrev(cur) /\ rel.variable_name \in Range(PrevColumns)
        => /\ rel.tuple_position # -1
           /\ \E i \in DOMAIN query.targetList :
                  /\ query.targetList[i].resno = rel.tuple_position
                  /\ query.targetList[i].resname = rel.variable_name

\* MATCH (a)-[e]->(b) WITH a CREATE (a)-[:T]->(b): the plan node of b is an
\* existing node at tuple position -1, and the clause compiles
C26_WitnessNotHandedOn ==
    /\ Clause.type = "cypher_create"
    /\ pc = "leave"
    /\ HasPrev(cur)
    /\ chain[cur - 1].type = "cypher_with"
    /\ \E rel \in CreatedNodes :
          /\ IsExistingNode(rel)
          /\ rel.variable_name = "b"
          /\ rel.tuple_position = -1

-----------------------------------------------------------------------------
(* The order of compilation and the scope of a clause (C27) *)

\* the pattern elements of a clause, in order
RECURSIVE ElementsFrom(_, _)
ElementsFrom(pattern, p) ==
    IF p > Len(pattern) THEN <<>>
    ELSE pattern[p].path \o ElementsFrom(pattern, p + 1)

\* the pattern elements of the clauses before clause i, in chain order
RECURSIVE ElementsBefore(_)
ElementsBefore(i) ==
    IF i <= 1 THEN <<>>
    ELSE ElementsBefore(i - 1) \o ElementsFrom(chain[i - 1].pattern, 1)

\* the clause is about to compile the first of its own elements
AtBodyStart ==
    /\ pc = "body"
    /\ pathi = 1 /\ elemi = 1
    /\ transformed = <<>> /\ transformed_path = <<>> /\ entities = <<>>

\* the columns the clause starts with: those of the predecessor where the
\* clause copies them, and the null column of CREATE
StartColumns ==
    (IF HasPrev(cur) /\ ExpandsPrev(Clause)
     THEN Len(ColumnNames(queries[cur - 1].targetList)) ELSE 0)
    + (IF Clause.type = "cypher_create" THEN 1 ELSE 0)

\* C27: every clause compiles its predecessor to completion in a child
\* scope before any of its own elements, so the clauses are compiled in chain
\* order; when a clause starts on its own elements the registry holds every
\* entity of the clauses before it, in order, each with
\* declared_in_current_clause = false, and nothing of the child's range
\* table, join list or column counter is in its scope but the one
\* sub-relation aliased "_" at range-table position 1.
C27_ChainOrderAndScope ==
    /\ trace = [k \in 1..Len(trace) |-> k]
    /\ pc \in {"body", "leave"} => Len(trace) = cur /\ Len(queries) = cur - 1
    /\ AtBodyStart =>
           /\ Len(cpstate.entities) = Len(ElementsBefore(cur))
           /\ \A k \in DOMAIN cpstate.entities :
                  /\ cpstate.entities[k].type = ElementsBefore(cur)[k].kind
                  /\ ElementsBefore(cur)[k].name # NULL =>
                         cpstate.entities[k].name = ElementsBefore(cur)[k].name
                  /\ ~cpstate.entities[k].declared_in_current_clause
           /\ cpstate.p_rtable =
                  (IF HasPrev(cur)
                   THEN <<RangeTblEntry("subquery", PREV_CYPHER_CLAUSE_ALIAS,
                              ColumnNames(queries[cur - 1].targetList),
                              TRUE, TRUE)>>
                   ELSE <<>>)
           /\ cpstate.p_next_resno = StartColumns + 1
           /\ Len(query.targetList) = StartColumns
           /\ cpstate.property_constraint_quals = <<>>
           /\ cpstate.default_alias_num = 0

\* MATCH (a)-[e]->(b) WITH a CREATE ... : the CREATE starts with the three
\* entities of the MATCH in its registry and the one column a of "_"
C27_Witness ==
    /\ AtBodyStart
    /\ cur = 3
    /\ Clause.type = "cypher_create"
    /\ chain[1].type = "cypher_match"
    /\ Len(queries[1].rtable) = 3
    /\ Len(cpstate.entities) = 3
    /\ Len(cpstate.p_rtable) = 1
    /\ cpstate.p_rtable[1].colnames = <<"a">>
    /\ cpstate.p_next_resno = 3

-----------------------------------------------------------------------------
(* The name of an edge of CREATE (C28) *)

\* the step that transforms an edge of CREATE whose name is taken ends in
\* 'variable already exists'
CreateEdgeNameTakenFails(taken) ==
    AtCreateEdge /\ taken =>
        /\ pc' = "error"
        /\ error' = ereport(ERRCODE_FEATURE_NOT_SUPPORTED,
                            "variable already exists", Path.path[elemi].name)

\* no two columns of the CREATE clause being compiled have the same name
CreateColumnsDistinct ==
    Clause.type = "cypher_create" /\ pc \in {"body", "leave"} =>
        \A i, j \in DOMAIN query.targetList :
            query.targetList[i].resname = query.targetList[j].resname => i = j

\* C28: compiling an edge of CREATE whose name is bound already, by a
\* previous clause or by an earlier element of the same CREATE clause, vertex
\* or edge, ends in 'variable ... already exists'; a CREATE clause never has
\* two output columns of the same name.
C28_CreateEdgeNameTaken ==
    /\ [][CreateEdgeNameTakenFails(BoundAs(Path.path[elemi].name) # {})]_vars
    /\ []CreateColumnsDistinct

\* the same for a name that is a column of the preceding clause
C28_CreateEdgeNameOfPredecessor ==
    [][CreateEdgeNameTakenFails(
           /\ HasPrev(cur)
           /\ Path.path[elemi].name \in Range(PrevColumns))]_vars

\* CREATE (e)-[e:T]->(..) is compiled: two columns are called e
C28_WitnessSameClause ==
    /\ Clause.type = "cypher_create"
    /\ pc = "leave"
    /\ Len(Pattern[1].path) >= 2
    /\ Pattern[1].path[1].name = "e"
    /\ Pattern[1].path[2].name = "e"
    /\ Cardinality({i \in DOMAIN query.targetList :
                       query.targetList[i].resname = "e"}) = 2

\* MATCH (a)-[e]->(b) CREATE (..)-[e:T]->(..) has ended in the error
C28_WitnessPredecessor ==
    /\ Clause.type = "cypher_create"
    /\ pc = "error"
    /\ HasPrev(cur)
    /\ "e" \in Range(PrevColumns)
    /\ elemi = 2
    /\ Path.path[1].name # "e"
    /\ error = ereport(ERRCODE_FEATURE_NOT_SUPPORTED, "variable already exists", "e")

-----------------------------------------------------------------------------
(* The accessors of the join quals (C29) *)

\* a raw expression and every expression under it
RECURSIVE SubQuals(_)
SubQuals(q) == {q} \cup UNION {SubQuals(q.args[i]) : i \in DOMAIN q.args}

\* the function calls make_qual returns
AccessorNames ==
    {AG_VERTEX_ACCESS_FUNCTION_ID, AG_EDGE_ACCESS_FUNCTION_ID,
     AG_EDGE_ACCESS_FUNCTION_START_ID, AG_EDGE_ACCESS_FUNCTION_END_ID,
     "graphid_to_agtype", "no accessor function", NULL_DEREFERENCE}

AccessorsOf(k) ==
    {q \in UNION {SubQuals(transformed[k].qual[i]) :
                     i \in DOMAIN transformed[k].qual} :
        q.op \in AccessorNames}

\* the accessor reads this entity: its variable, or a column of its relation
AccessorReads(q, entity) ==
    /\ Len(q.args) = 1
    /\ IF IsA(entity.expr, "Var")
       THEN q.args[1] = ExprArg(entity.expr)
       ELSE /\ q.op = "graphid_to_agtype"
            /\ q.args[1].op = "ColumnRef"
            /\ q.args[1].rel = entity.name

\* C29: in the join quals of a MATCH path, whatever its shape and the
\* directions of its edges, every identity or endpoint accessor (make_qual)
\* is built over an element that is in the join tree; none is built over a
\* vertex left out of it, whose expression is absent.
C29_AccessorsOfJoinedOnly ==
    \A k \in FinishedPaths :
        \A q \in AccessorsOf(k) :
            /\ q.op # NULL_DEREFERENCE
            /\ \E i \in DOMAIN transformed[k].entities :
                   /\ transformed[k].entities[i].in_join_tree
                   /\ transformed[k].entities[i].expr # NoExpr
                   /\ AccessorReads(q, transformed[k].entities[i])

\* a path ()-[]-()-[]->(b) is finished: the first and the inner vertex are
\* left out, the first edge is undirected, and the quals hold accessors
C29_Witness ==
    \E k \in FinishedPaths :
        /\ Len(transformed[k].entities) = 5
        /\ ~transformed[k].entities[1].in_join_tree
        /\ ~transformed[k].entities[3].in_join_tree
        /\ transformed[k].entities[5].in_join_tree
        /\ transformed[k].entities[2].dir = CYPHER_REL_DIR_NONE
        /\ transformed[k].entities[4].dir = CYPHER_REL_DIR_RIGHT
        /\ Cardinality(AccessorsOf(k)) >= 4

-----------------------------------------------------------------------------
(* The positions of a SET item (C30) *)

\* a SET of one item has compiled its own part
SetCompiled ==
    /\ Clause.type = "cypher_set"
    /\ pc = "leave"
    /\ HasPrev(cur)
    /\ Len(Clause.items) = 1

\* C30: after a successful SET of one item over a predecessor of n output
\* columns, the update item has a variable position in 1..n (the column
\* named after the variable) and a new-value position n + 1, the position
\* of the value column appended to the target list; the function column of
\* the update plan comes after it and is the last column.
C30_SetPositions ==
    SetCompiled =>
        LET n == Len(PrevColumns)
            tl == query.targetList
            item == query.plan.items[1]
        IN  /\ Len(query.plan.items) = 1
            /\ item.entity_position \in 1..n
            /\ tl[item.entity_position].resname = item.var_name
            /\ item.prop_position = n + 1
            /\ Len(tl) = n + 2
            /\ \A j \in 1..n : tl[j].resname = PrevColumns[j] /\ tl[j].resno = j
            /\ tl[n + 1].resno = n + 1
            /\ tl[n + 1].expr = Const("literal")
            /\ tl[n + 2].resno = n + 2
            /\ tl[n + 2].resname = AGE_VARNAME_SET_CLAUSE

\* SET b.p = .. over MATCH (a)-[e]->(b): three columns, b the third
C30_Witness ==
    /\ SetCompiled
    /\ Len(PrevColumns) = 3
    /\ query.plan.items[1].var_name = "b"
    /\ query.plan.items[1].entity_position = 3
    /\ query.plan.items[1].prop_position = 4
    /\ Len(query.targetList) = 5

\* SET over a predecessor of one column
C30_WitnessOneColumn ==
    /\ SetCompiled
    /\ Len(PrevColumns) = 1
    /\ query.plan.items[1].entity_position = 1
    /\ query.plan.items[1].prop_position = 2

====
